---- MODULE Spec2Model ----
(***************************************************************************)
(* Lead normalisation (app/extract.py, backend/app/schemas.py) and the     *)
(* dedupe / qualify / store decision of /ingest and /scrape (app/main.py). *)
(*                                                                         *)
(* Text is a sequence of one-character strings, so that lower(), strip()   *)
(* and startswith() are computed character by character.                   *)
(***************************************************************************)
EXTENDS Integers, Sequences, FiniteSets, TLC

VARIABLES
    today,      \* _today_au_str(): the date in Adelaide
    raw,        \* extract_lead: raw_content, the extractor's reply
    xres,       \* extract_lead: what the call gave
    leads,      \* the table "leads", in order of insertion
    pc,         \* per request: where its handler stands
    kind,       \* per request: "ingest" or "scrape"
    rec,        \* per request: data (ingest) or lead_record (scrape)
    qual,       \* per request: the local qualified of ingest
    row,        \* per request: existing.data[0]
    resp,       \* per request: the response
    jobs,       \* per request: scraped_jobs
    jx,         \* per request: the job the loop of /scrape is at
    oai,        \* whether get_openai_client() gives a client (OPENAI_API_KEY)
    new_count,  \* per request: new_count of /scrape
    post,       \* per request: what its current posting saw and did (history)
    arrivals,   \* postings received so far
    failures    \* storage calls that failed so far

xvars == <<today, raw, xres>>

dbvars == <<leads, pc, kind, rec, qual, row, resp, jobs, jx, oai, new_count,
            post, arrivals, failures>>

vars == <<today, raw, xres, leads, pc, kind, rec, qual, row, resp, jobs, jx,
          oai, new_count, post, arrivals, failures>>

(***************************************************************************)
(* Text helpers: str.lower, str.strip, str.startswith                      *)
(***************************************************************************)
UpperToLower ==
    [A |-> "a", B |-> "b", C |-> "c", D |-> "d", E |-> "e", F |-> "f",
     G |-> "g", H |-> "h", I |-> "i", J |-> "j", K |-> "k", L |-> "l",
     M |-> "m", N |-> "n", O |-> "o", P |-> "p", Q |-> "q", R |-> "r",
     S |-> "s", T |-> "t", U |-> "u", V |-> "v", W |-> "w", X |-> "x",
     Y |-> "y", Z |-> "z"]

LowerChar(c) == IF c \in DOMAIN UpperToLower THEN UpperToLower[c] ELSE c

Lower(s) == [i \in 1..Len(s) |-> LowerChar(s[i])]

Whitespace == {" ", "\t", "\n"}

RECURSIVE LStrip(_)
LStrip(s) ==
    IF s # <<>> /\ Head(s) \in Whitespace THEN LStrip(Tail(s)) ELSE s

RECURSIVE RStrip(_)
RStrip(s) ==
    IF s # <<>> /\ s[Len(s)] \in Whitespace
    THEN RStrip(SubSeq(s, 1, Len(s) - 1))
    ELSE s

Strip(s) == RStrip(LStrip(s))

StartsWith(s, p) == Len(s) >= Len(p) /\ SubSeq(s, 1, Len(p)) = p

(***************************************************************************)
(* Literals of the source                                                  *)
(***************************************************************************)
NA == <<"N", "/", "A">>
No == <<"N", "o">>
Yes == <<"Y", "e", "s">>
Electrical == <<"E", "l", "e", "c", "t", "r", "i", "c", "a", "l">>
full == <<"f", "u", "l", "l">>
Empty == <<>>
Bar == <<"|">>
NotInElectricalPrefix ==
    <<"N", "o", "t", " ", "i", "n", " ", "E", "l", "e", "c", "t", "r", "i",
      "c", "a", "l", " ", "s", "e", "c", "t", "o", "r", " ", "(", "i", "s",
      " ">>
NotFullTimePrefix ==
    <<"N", "o", "t", " ", "a", " ", "f", "u", "l", "l", "-", "t", "i", "m",
      "e", " ", "r", "o", "l", "e", " ", "(", "i", "s", " ">>
CloseParen == <<")">>

(***************************************************************************)
(* datetime.strptime(date_str, "%d/%m/%Y"): one or two digits of day, one  *)
(* or two of month, exactly four of year, and a date of the calendar.      *)
(***************************************************************************)
Digits == <<"0", "1", "2", "3", "4", "5", "6", "7", "8", "9">>

IsDigit(c) == \E i \in 1..10 : Digits[i] = c

DigitVal(c) == (CHOOSE i \in 1..10 : Digits[i] = c) - 1

AllDigits(s) == \A i \in 1..Len(s) : IsDigit(s[i])

RECURSIVE NumVal(_)
NumVal(s) ==
    IF s = <<>> THEN 0
    ELSE 10 * NumVal(SubSeq(s, 1, Len(s) - 1)) + DigitVal(s[Len(s)])

\* positions of "/" in s
SlashPos(s) == {i \in 1..Len(s) : s[i] = "/"}

IsLeap(y) == (y % 4 = 0 /\ y % 100 # 0) \/ y % 400 = 0

DaysIn(m, y) ==
    IF m = 2 THEN (IF IsLeap(y) THEN 29 ELSE 28)
    ELSE IF m \in {4, 6, 9, 11} THEN 30 ELSE 31

ParsesAsDate(s) ==
    /\ Cardinality(SlashPos(s)) = 2
    /\ LET a == CHOOSE i \in SlashPos(s) : \A j \in SlashPos(s) : i <= j
           b == CHOOSE i \in SlashPos(s) : \A j \in SlashPos(s) : i >= j
           d == SubSeq(s, 1, a - 1)
           m == SubSeq(s, a + 1, b - 1)
           y == SubSeq(s, b + 1, Len(s))
       IN  /\ Len(d) \in {1, 2} /\ AllDigits(d)
           /\ Len(m) \in {1, 2} /\ AllDigits(m)
           /\ Len(y) = 4 /\ AllDigits(y)
           /\ NumVal(y) >= 1
           /\ NumVal(m) \in 1..12
           /\ NumVal(d) >= 1
           /\ NumVal(d) <= DaysIn(NumVal(m), NumVal(y))

\* _safeguard_date; t is _today_au_str() at the time of the call
safeguard_date(date_str, t) == IF ParsesAsDate(date_str) THEN date_str ELSE t

(***************************************************************************)
(* JSON values of the extractor's reply, and the schema ExtractedLead      *)
(***************************************************************************)
JStr(s) == [kind |-> "str", s |-> s]
JNull == [kind |-> "null", s |-> <<>>]
JInt(s) == [kind |-> "int", s |-> s]

ExtractedNames ==
    {"first_name", "email", "phone", "company", "roles_advertised", "sector",
     "employment_type", "date_posted", "entry_date", "salary_info",
     "location", "ad_url", "skip", "skip_reason"}

Alias ==
    [first_name |-> "First Name", email |-> "Email", phone |-> "Phone",
     company |-> "Company", roles_advertised |-> "Roles Advertised",
     sector |-> "Sector", employment_type |-> "Employment Type",
     date_posted |-> "Date Posted", entry_date |-> "Entry Date",
     salary_info |-> "Salary Info", location |-> "Location",
     ad_url |-> "Ad URL", skip |-> "Skip", skip_reason |-> "Skip Reason"]

\* the computed fields are fields of the schema too: no alias, own defaults
ComputedDefault ==
    [qualified |-> JStr(No), priority |-> JInt(<<"0">>), dedupe_key |-> JStr(Empty)]

\* validation by alias only, without populate_by_name
FieldInput_alias_only(data, f) ==
    IF f \in ExtractedNames
    THEN IF Alias[f] \in DOMAIN data THEN data[Alias[f]] ELSE JStr(NA)
    ELSE IF f \in DOMAIN data THEN data[f] ELSE ComputedDefault[f]

\* validation with the empty text as the default of a missing field
FieldInput_empty_default(data, f) ==
    IF f \in ExtractedNames
    THEN IF Alias[f] \in DOMAIN data THEN data[Alias[f]]
         ELSE IF f \in DOMAIN data THEN data[f]
         ELSE JStr(Empty)
    ELSE IF f \in DOMAIN data THEN data[f] ELSE ComputedDefault[f]

\* the value validation reads for field f: by alias, else by name
\* (populate_by_name), else the default
FieldInput(data, f) ==
    IF f \in ExtractedNames
    THEN IF Alias[f] \in DOMAIN data THEN data[Alias[f]]
         ELSE IF f \in DOMAIN data THEN data[f]
         ELSE JStr(NA)
    ELSE IF f \in DOMAIN data THEN data[f] ELSE ComputedDefault[f]

\* pydantic (lax mode): a str field takes only text; an int field takes an
\* integer or text of digits
FieldValid(data, f) ==
    IF f = "priority"
    THEN \/ FieldInput(data, f).kind = "int"
         \/ FieldInput(data, f).kind = "str" /\ FieldInput(data, f).s # <<>>
            /\ AllDigits(FieldInput(data, f).s)
    ELSE FieldInput(data, f).kind = "str"

SchemaNames == ExtractedNames \cup {"qualified", "priority", "dedupe_key"}

NoLead ==
    [first_name |-> Empty, email |-> Empty, phone |-> Empty, company |-> Empty,
     roles_advertised |-> Empty, sector |-> Empty, employment_type |-> Empty,
     date_posted |-> Empty, entry_date |-> Empty, salary_info |-> Empty,
     location |-> Empty, ad_url |-> Empty, skip |-> Empty,
     skip_reason |-> Empty, qualified |-> Empty, priority |-> 0,
     dedupe_key |-> Empty]

\* ExtractedLead.model_validate(data), for data that is a mapping
model_validate(data) ==
    [f \in SchemaNames |->
        IF f = "priority" THEN NumVal(FieldInput(data, f).s)
        ELSE FieldInput(data, f).s]

model_validate_ok(top) ==
    /\ top.kind = "object"
    /\ \A f \in SchemaNames : FieldValid(top.obj, f)

(***************************************************************************)
(* extract_lead, steps 3 and 4                                             *)
(***************************************************************************)
\* json.loads(raw_content), then the search for "{...}" in the text.
\* raw.form tells what the text is: "json" parses as it stands; "embedded"
\* is prose around one JSON object; "embedded_bad" has braces around text
\* that is no JSON; "garbage" has no braces.
parse_raw(r) ==
    CASE r.form = "json" -> [status |-> "ok", top |-> r.top]
      [] r.form = "embedded" -> [status |-> "ok", top |-> r.top]
      [] r.form = "embedded_bad" -> [status |-> "JSONDecodeError", top |-> r.top]
      [] OTHER -> [status |-> "ValueError", top |-> r.top]

is_qualified(lead) ==
    /\ lead.skip = No
    /\ lead.sector = Electrical
    /\ StartsWith(Lower(lead.employment_type), full)

\* qualify with the two checks in the other order
qualify_employment_first(lead) ==
    IF is_qualified(lead) THEN [lead EXCEPT !.qualified = Yes]
    ELSE IF lead.skip = No
         THEN IF ~StartsWith(Lower(lead.employment_type), full)
              THEN [lead EXCEPT !.skip_reason =
                        NotFullTimePrefix \o lead.employment_type \o CloseParen]
              ELSE IF lead.sector # Electrical
                   THEN [lead EXCEPT !.skip_reason =
                        NotInElectricalPrefix \o lead.sector \o CloseParen]
                   ELSE lead
         ELSE lead

\* lines 104-112
qualify(lead) ==
    IF is_qualified(lead) THEN [lead EXCEPT !.qualified = Yes]
    ELSE IF lead.skip = No
         THEN IF lead.sector # Electrical
              THEN [lead EXCEPT !.skip_reason =
                        NotInElectricalPrefix \o lead.sector \o CloseParen]
              ELSE IF ~StartsWith(Lower(lead.employment_type), full)
                   THEN [lead EXCEPT !.skip_reason =
                        NotFullTimePrefix \o lead.employment_type \o CloseParen]
                   ELSE lead
         ELSE lead

\* score with the email counted once
score_email_once(lead) ==
    (IF lead.email # NA THEN 1 ELSE 0)
    + (IF lead.phone # NA THEN 1 ELSE 0)
    + (IF lead.salary_info # NA THEN 1 ELSE 0)

\* lines 114-119
score(lead) ==
    (IF lead.email # NA THEN 2 ELSE 0)
    + (IF lead.phone # NA THEN 1 ELSE 0)
    + (IF lead.salary_info # NA THEN 1 ELSE 0)

\* the key without strip()
dedupe_key_unstripped(lead) ==
    Lower(lead.company) \o Bar \o Lower(lead.roles_advertised)

\* lines 121-124
dedupe_key_of(lead) ==
    Strip(Lower(lead.company)) \o Bar \o Strip(Lower(lead.roles_advertised))

\* lines 93-95
safeguard_dates(lead, t) ==
    [lead EXCEPT !.entry_date = safeguard_date(lead.entry_date, t),
                 !.date_posted = safeguard_date(lead.date_posted, t)]

normalize(lead, t) ==
    LET l1 == safeguard_dates(lead, t)
        l2 == qualify(l1)
        l3 == [l2 EXCEPT !.priority = score(l2)]
    IN  [l3 EXCEPT !.dedupe_key = dedupe_key_of(l3)]

\* extract_lead returning a lead of defaults when the reply does not parse
extract_lead_default_lead(r, t) ==
    LET parsed == parse_raw(r)
    IN  IF parsed.status # "ok" \/ ~model_validate_ok(parsed.top)
        THEN [status |-> "ok", lead |-> normalize(model_validate([k \in {} |-> JNull]), t)]
        ELSE [status |-> "ok",
              lead |-> normalize(model_validate(parsed.top.obj), t)]

\* the call as a whole: the lead, or the exception that leaves the function
extract_lead(r, t) ==
    LET parsed == parse_raw(r)
    IN  IF parsed.status # "ok"
        THEN [status |-> parsed.status, lead |-> NoLead]
        ELSE IF ~model_validate_ok(parsed.top)
        THEN [status |-> "ValidationError", lead |-> NoLead]
        ELSE [status |-> "ok",
              lead |-> normalize(model_validate(parsed.top.obj), t)]

(***************************************************************************)
(* llm_utils.py: Python values are the JSON values above plus booleans     *)
(***************************************************************************)
PyTrue == [kind |-> "bool", s |-> <<"True">>]
PyFalse == [kind |-> "bool", s |-> <<"False">>]

\* bool(v)
Truthy(v) ==
    CASE v.kind = "str" -> v.s # <<>>
      [] v.kind = "bool" -> v = PyTrue
      [] v.kind = "int" -> NumVal(v.s) # 0
      [] OTHER -> FALSE

\* a or b
PyOr(a, b) == IF Truthy(a) THEN a ELSE b

\* mapping.get(k) and mapping.get(k, d)
Get(obj, k) == IF k \in DOMAIN obj THEN obj[k] ELSE JNull

GetDefault(obj, k, d) == IF k \in DOMAIN obj THEN obj[k] ELSE d

\* str(v) inside an f-string
PyStrOf(v) ==
    CASE v.kind = "null" -> <<"N", "o", "n", "e">>
      [] OTHER -> v.s

Contains(s, sub) ==
    \E i \in 1..(Len(s) - Len(sub) + 1) : SubSeq(s, i, i + Len(sub) - 1) = sub

FirstIndex(s, sub) ==
    CHOOSE i \in 1..(Len(s) - Len(sub) + 1) :
        /\ SubSeq(s, i, i + Len(sub) - 1) = sub
        /\ \A j \in 1..(i - 1) : SubSeq(s, j, j + Len(sub) - 1) # sub

\* s.split(sep)
RECURSIVE Split(_, _)
Split(s, sep) ==
    IF ~Contains(s, sep) THEN <<s>>
    ELSE LET i == FirstIndex(s, sep)
         IN  <<SubSeq(s, 1, i - 1)>> \o Split(SubSeq(s, i + Len(sep), Len(s)), sep)

NonEmpty(x) == x # <<>>

\* [p.strip() for p in title.split(sep) if p.strip()]
Parts(title, sep) ==
    LET sp == Split(title, sep)
    IN  SelectSeq([i \in 1..Len(sp) |-> Strip(sp[i])], NonEmpty)

\* the separators of line 36, in order; "EMDASH" and "ENDASH" stand for the
\* one character each names
Separators ==
    << <<" ", "-", " ">>, <<" ", "|", " ">>, <<" ", "EMDASH", " ">>,
       <<"ENDASH">>, <<" ", "EMDASH">>, <<" ", "/", " ">> >>

_simple_company_from_title(title) ==
    IF title = <<>> THEN JNull
    ELSE LET hits == {k \in 1..Len(Separators) :
                        /\ Contains(title, Separators[k])
                        /\ Len(Parts(title, Separators[k])) >= 2}
         IN  IF hits = {} THEN JNull
             ELSE LET k == CHOOSE h \in hits : \A g \in hits : h <= g
                      ps == Parts(title, Separators[k])
                  IN  JStr(ps[Len(ps)])

senior == <<"s", "e", "n", "i", "o", "r">>
leadWord == <<"l", "e", "a", "d">>
manager == <<"m", "a", "n", "a", "g", "e", "r">>
unqualifiedWord == <<"u", "n", "q", "u", "a", "l", "i", "f", "i", "e", "d">>

\* lines 82-84 and 116-118
priority_of(text) ==
    IF \E k \in {senior, leadWord, manager} : Contains(Lower(text), k)
    THEN 4 ELSE 2

\* lines 103-133: the deterministic record
fallback_record(source_subject, ad_url) ==
    LET title == Strip(source_subject)
        ad_url_norm == Strip(ad_url)
    IN  [company |-> _simple_company_from_title(title),
         roles_advertised |-> JStr(IF title # <<>> THEN title ELSE NA),
         location |-> JNull, first_name |-> JNull, email |-> JNull,
         phone |-> JNull, priority |-> priority_of(title),
         duplicate_flag |-> FALSE, salary_info |-> JNull,
         qualified |-> PyTrue, skip_reason |-> JStr(NA),
         dedupe_key |-> IF ad_url_norm # <<>> THEN Lower(ad_url_norm)
                        ELSE Lower(title)]

\* lines 67-70: the reply's content as a mapping
parsed_of(reply, source_subject) ==
    IF reply.kind = "notjson"
    THEN [k \in {"Company", "Roles Advertised"} |->
            IF k = "Company" THEN JNull ELSE JStr(source_subject)]
    ELSE reply.obj

\* lines 73-99: the record built from the model's reply
model_record(parsed, source_subject, ad_url) ==
    LET roles == PyOr(PyOr(Get(parsed, "Roles Advertised"), JStr(source_subject)),
                      JStr(NA))
        qualified == GetDefault(parsed, "Qualified", PyTrue)
    IN  [company |-> PyOr(Get(parsed, "Company"),
                          _simple_company_from_title(source_subject)),
         roles_advertised |-> roles,
         location |-> Get(parsed, "Location"), first_name |-> JNull,
         email |-> Get(parsed, "Email"), phone |-> Get(parsed, "Phone"),
         priority |-> priority_of(roles.s),
         duplicate_flag |-> FALSE, salary_info |-> Get(parsed, "Salary Info"),
         qualified |-> qualified,
         skip_reason |-> GetDefault(parsed, "Skip Reason",
                            IF Truthy(qualified) THEN JStr(NA)
                            ELSE JStr(unqualifiedWord)),
         dedupe_key |-> Lower(IF ad_url # <<>> THEN ad_url ELSE source_subject)]

\* whether lines 57-99 raise: the call fails, the content is JSON but no
\* mapping (no .get), or the role is truthy and no text (no .lower)
model_path_raises(reply, source_subject) ==
    \/ reply.kind \in {"raise", "nonmapping"}
    \/ LET parsed == parsed_of(reply, source_subject)
       IN  PyOr(PyOr(Get(parsed, "Roles Advertised"), JStr(source_subject)),
                JStr(NA)).kind # "str"

\* process_lead_with_openai letting nothing fall back once a client is given
process_lead_no_fallback(client, source_subject, ad_url, reply) ==
    IF client
    THEN model_record(parsed_of(reply, source_subject), source_subject, ad_url)
    ELSE fallback_record(source_subject, ad_url)

\* client: whether oai is a client; reply: what the model call does
process_lead_with_openai(client, source_subject, ad_url, reply) ==
    IF client /\ ~model_path_raises(reply, source_subject)
    THEN model_record(parsed_of(reply, source_subject), source_subject, ad_url)
    ELSE fallback_record(source_subject, ad_url)

(***************************************************************************)
(* Replies of the extractor that the normaliser is run on                  *)
(***************************************************************************)
no == <<"n", "o">>
yes == <<"y", "e", "s">>
electrical == <<"e", "l", "e", "c", "t", "r", "i", "c", "a", "l">>
Plumbing == <<"P", "l", "u", "m", "b", "i", "n", "g">>
FullTime == <<"F", "u", "l", "l", "-", "t", "i", "m", "e">>
FULLTIME == <<"F", "U", "L", "L", " ", "T", "I", "M", "E">>
fullOnly == <<"f", "u", "l", "l">>
PartTime == <<"P", "a", "r", "t", "-", "t", "i", "m", "e">>
Casual == <<"C", "a", "s", "u", "a", "l">>
MockEmail == <<"j", "o", "b", "s", "@", "s", "p", "a", "r", "k", "y", "c", "o", ".", "c", "o", "m", ".", "a", "u">>
MockCompany == <<"S", "p", "a", "r", "k", "y", " ", "C", "o">>
MockCompanyVaried == <<" ", " ", "s", "p", "a", "r", "k", "y", " ", "C", "O", " ">>
OtherCompany == <<"A", "c", "m", "e">>
MockRole == <<"Q", "u", "a", "l", "i", "f", "i", "e", "d", " ", "E", "l", "e", "c", "t", "r", "i", "c", "i", "a", "n">>
MockRoleVaried == <<"Q", "U", "A", "L", "I", "F", "I", "E", "D", " ", "e", "l", "e", "c", "t", "r", "i", "c", "i", "a", "n", " ">>
OtherRole == <<"P", "l", "u", "m", "b", "e", "r">>
MockDate == <<"1", "7", "/", "0", "8", "/", "2", "0", "2", "5">>
MockSalary == <<"G", "r", "e", "a", "t", " ", "s", "a", "l", "a", "r", "y", " ", "p", "a", "c", "k", "a", "g", "e">>
MockLocation == <<"M", "e", "l", "b", "o", "u", "r", "n", "e">>
MockAdUrl == <<"h", "t", "t", "p", "s", ":", "/", "/", "w", "w", "w", ".", "s", "e", "e", "k", ".", "c", "o", "m", ".", "a", "u", "/", "j", "o", "b", "/", "1", "2", "3", "4", "5", "6", "7", "8">>
SomePhone == <<"0", "4", "0", "0">>
AgencyReason == <<"A", "g", "e", "n", "c", "y">>
BadDate == <<"2", "0", "2", "5", "-", "0", "8", "-", "1", "7">>
Today1 == <<"0", "5", "/", "1", "1", "/", "2", "0", "2", "6">>
Today2 == <<"2", "9", "/", "0", "2", "/", "2", "0", "2", "4">>

Todays == {Today1, Today2}

JMissing == [kind |-> "missing", s |-> <<>>]

\* the mocked reply of lines 53-70
MockFields ==
    [first_name |-> JStr(NA), email |-> JStr(MockEmail), phone |-> JStr(NA),
     company |-> JStr(MockCompany), roles_advertised |-> JStr(MockRole),
     sector |-> JStr(Electrical), employment_type |-> JStr(FullTime),
     date_posted |-> JStr(MockDate), entry_date |-> JStr(MockDate),
     salary_info |-> JStr(MockSalary), location |-> JStr(MockLocation),
     ad_url |-> JStr(MockAdUrl), skip |-> JStr(No), skip_reason |-> JStr(NA)]

EmptyObj == [k \in {} |-> JNull]

KeyOf(f, byName) == IF f \in byName THEN f ELSE Alias[f]

\* the JSON object holding the fields that are not missing, those of byName
\* under their field name and the others under their label, and the entries
\* of extra besides
MkObj(fields, byName, extra) ==
    LET present == {f \in DOMAIN fields : fields[f].kind # "missing"}
        keys == {KeyOf(f, byName) : f \in present}
    IN  [k \in keys |->
            fields[CHOOSE f \in present : KeyOf(f, byName) = k]] @@ extra

JsonObject(o) == [form |-> "json", top |-> [kind |-> "object", obj |-> o]]

With3(fields, a, va, b, vb, c, vc) ==
    [fields EXCEPT ![a] = va, ![b] = vb, ![c] = vc]

\* skip x sector x employment type x the AI's reason x a "qualified" entry
QualificationFields ==
    {[With3(MockFields, "skip", sk, "sector", se, "employment_type", em)
        EXCEPT !["skip_reason"] = sr] :
        sk \in {JStr(No), JStr(no), JStr(Yes), JStr(yes), JMissing},
        se \in {JStr(Electrical), JStr(electrical), JStr(Plumbing), JMissing},
        em \in {JStr(FullTime), JStr(FULLTIME), JStr(fullOnly),
                JStr(PartTime), JStr(Casual)},
        sr \in {JStr(NA), JStr(AgencyReason)}}

ComputedExtras ==
    {EmptyObj,
     [k \in {"qualified"} |-> JStr(Yes)],
     [k \in {"qualified"} |-> JStr(No)],
     [k \in {"priority", "dedupe_key"} |->
        IF k = "priority" THEN JInt(<<"9">>) ELSE JStr(MockCompany)]}

\* email x phone x salary, present, absent, missing, or of the wrong type
ContactFields ==
    {With3(MockFields, "email", e, "phone", ph, "salary_info", sa) :
        e \in {JStr(NA), JStr(MockEmail), JMissing, JNull},
        ph \in {JStr(NA), JStr(SomePhone), JMissing, JInt(SomePhone)},
        sa \in {JStr(NA), JStr(MockSalary), JMissing}}

\* company x role, in several spellings, x other fields
KeyFields ==
    {[With3(MockFields, "company", c, "roles_advertised", r, "location", lo)
        EXCEPT !["date_posted"] = d] :
        c \in {JStr(MockCompany), JStr(MockCompanyVaried), JStr(OtherCompany),
               JStr(NA), JMissing},
        r \in {JStr(MockRole), JStr(MockRoleVaried), JStr(OtherRole), JStr(NA)},
        lo \in {JStr(MockLocation), JStr(NA)},
        d \in {JStr(MockDate), JStr(BadDate)}}

\* dates: of the calendar, short, of no calendar, in another format, empty
ShortDate == <<"5", "/", "1", "/", "2", "0", "2", "5">>
FebThirtieth == <<"3", "0", "/", "0", "2", "/", "2", "0", "2", "5">>
LeapDay == <<"2", "9", "/", "0", "2", "/", "2", "0", "2", "4">>
NoLeapDay == <<"2", "9", "/", "0", "2", "/", "2", "0", "2", "5">>
IsoDate == <<"2", "0", "2", "5", "-", "0", "8", "-", "1", "7">>
DateNumber == <<"1", "7", "0", "8", "2", "0", "2", "5">>

\* date_posted x entry_date: text of each sort, null, a number, or missing
DateFields ==
    {[MockFields EXCEPT !["date_posted"] = d, !["entry_date"] = e] :
        d \in {JStr(MockDate), JStr(ShortDate), JStr(FebThirtieth),
               JStr(LeapDay), JStr(NoLeapDay), JStr(IsoDate), JStr(BadDate),
               JStr(NA), JStr(Empty), JMissing, JNull, JInt(DateNumber)},
        e \in {JStr(MockDate), JStr(IsoDate), JMissing, JNull}}

ObjectReplies ==
    {JsonObject(MkObj(f, {}, x)) : f \in QualificationFields, x \in ComputedExtras}
    \cup {JsonObject(MkObj(f, {}, EmptyObj)) : f \in ContactFields \cup KeyFields}
    \cup {JsonObject(MkObj(f, ExtractedNames, EmptyObj)) : f \in ContactFields}
    \cup {JsonObject(MkObj(f, {}, EmptyObj)) : f \in DateFields}

\* a posting of another trade, with a date that is no date
PlumberFields ==
    [MockFields EXCEPT !["sector"] = JStr(Plumbing),
                       !["date_posted"] = JStr(BadDate),
                       !["skip_reason"] = JStr(AgencyReason)]

\* replies that lack any subset of the fourteen keys
MissingReplies ==
    {JsonObject(MkObj([f \in ExtractedNames |->
                          IF f \in miss THEN JMissing ELSE base[f]],
                      {}, EmptyObj)) :
        miss \in SUBSET ExtractedNames, base \in {MockFields, PlumberFields}}

\* replies that are no JSON object, or no JSON at all
OtherReplies ==
    {[form |-> "json", top |-> [kind |-> k, obj |-> EmptyObj]] :
        k \in {"array", "string", "number", "null"}}
    \cup {[form |-> fm, top |-> [kind |-> "object", obj |-> MkObj(MockFields, {}, EmptyObj)]] :
        fm \in {"embedded", "embedded_bad", "garbage"}}

RawContents == ObjectReplies \cup OtherReplies

(***************************************************************************)
(* main.py: the table and the requests                                     *)
(***************************************************************************)
MaxReqs == 2

MaxArrivals == 3

MaxJobs == 2

MaxFailures == 1

Reqs == 1..MaxReqs

NoRow == [id |-> 0, duplicate_flag |-> FALSE]

NoResp == [status |-> "none", lead_id |-> 0, reason |-> <<>>, count |-> 0]

NoReply == [form |-> "none", top |-> [kind |-> "null", obj |-> EmptyObj]]

\* history of a posting: the reply /ingest extracted it from; its key and
\* whether it is qualified; the rows the
\* lookup found, the one it returned first and that row's flag then; the
\* updates issued, the row inserted, and how the posting ended
NoPost ==
    [reply |-> NoReply, key |-> <<>>, looked |-> FALSE, found |-> {},
     matched |-> 0,
     flagged |-> FALSE, seen_row |-> EmptyObj, qualified |-> FALSE,
     updates |-> 0, inserted |-> {}, inserted_row |-> EmptyObj,
     outcome |-> "none"]

InitDb ==
    /\ leads = <<>>
    /\ pc = [r \in Reqs |-> "idle"]
    /\ kind = [r \in Reqs |-> "none"]
    /\ rec = [r \in Reqs |-> EmptyObj]
    /\ qual = [r \in Reqs |-> FALSE]
    /\ row = [r \in Reqs |-> NoRow]
    /\ resp = [r \in Reqs |-> NoResp]
    /\ jobs = [r \in Reqs |-> <<>>]
    /\ jx = [r \in Reqs |-> 0]
    /\ oai \in BOOLEAN
    /\ new_count = [r \in Reqs |-> 0]
    /\ post = [r \in Reqs |-> NoPost]
    /\ arrivals = 0
    /\ failures = 0

(***************************************************************************)
(* Storage: select by dedupe_key, update by id, insert                     *)
(***************************************************************************)
\* the select leaving out the rows already flagged
Matches_unflagged(k) ==
    {i \in 1..Len(leads) : leads[i].dedupe_key = k /\ ~leads[i].duplicate_flag}

\* the rows select(...).eq("dedupe_key", k) returns
Matches(k) == {i \in 1..Len(leads) : leads[i].dedupe_key = k}

\* the update without its eq("id", n) filter
set_duplicate_unfiltered(table, n) ==
    [i \in 1..Len(table) |-> [table[i] EXCEPT !.duplicate_flag = TRUE]]

\* update({"duplicate_flag": True}).eq("id", n)
set_duplicate(table, n) ==
    [i \in 1..Len(table) |->
        IF table[i].id = n THEN [table[i] EXCEPT !.duplicate_flag = TRUE]
        ELSE table[i]]

\* the row insert(data) adds: the columns given, and id and created_at set
\* by the table
new_row(table, data) ==
    [k \in {"id", "created_at"} |-> Len(table) + 1] @@ data

(***************************************************************************)
(* /ingest                                                                 *)
(***************************************************************************)
Pad2(ds) == IF Len(ds) = 1 THEN <<"0">> \o ds ELSE ds

FirstSlash(s) == CHOOSE i \in SlashPos(s) : \A j \in SlashPos(s) : i <= j

LastSlash(s) == CHOOSE i \in SlashPos(s) : \A j \in SlashPos(s) : i >= j

\* _ddmmyyyy_to_iso, lines 318-326
_ddmmyyyy_to_iso(val) ==
    IF val = <<>> \/ val = NA \/ ~ParsesAsDate(val) THEN JNull
    ELSE JStr(SubSeq(val, LastSlash(val) + 1, Len(val)) \o <<"-">>
              \o Pad2(SubSeq(val, FirstSlash(val) + 1, LastSlash(val) - 1))
              \o <<"-">> \o Pad2(SubSeq(val, 1, FirstSlash(val) - 1)))

TruthWords == {<<"t", "r", "u", "e">>, <<"y", "e", "s">>, <<"1">>}

\* line 335 with every lead taken as qualified
ingest_qualified_always(lead) == TRUE

\* line 335
ingest_qualified(lead) == Lower(lead.qualified) \in TruthWords

\* lines 315-342: the dict that is looked up and inserted
ingest_data(lead) ==
    [f \in SchemaNames \cup {"duplicate_flag"} |->
        CASE f = "duplicate_flag" -> FALSE
          [] f \in {"entry_date", "date_posted"} -> _ddmmyyyy_to_iso(lead[f])
          [] f = "dedupe_key" ->
                IF lead.dedupe_key # <<>> THEN lead.dedupe_key
                ELSE Lower(lead.company \o <<"-">> \o lead.roles_advertised
                           \o <<"-">> \o lead.ad_url)
          [] OTHER -> lead[f]]

\* the replies /ingest is run on: the mocked one, the same posting marked
\* to skip, the same posting in another spelling, another posting, a
\* posting that fails the rule but presets qualified, and text that is no JSON
SkippedFields == [MockFields EXCEPT !["skip"] = JStr(Yes)]

VariedFields ==
    [MockFields EXCEPT !["company"] = JStr(MockCompanyVaried),
                       !["roles_advertised"] = JStr(MockRoleVaried)]

OtherFields == [MockFields EXCEPT !["company"] = JStr(OtherCompany)]

PresetQualified == [k \in {"qualified"} |-> JStr(Yes)]

IngestReplies ==
    {JsonObject(MkObj(f, {}, EmptyObj)) :
        f \in {MockFields, SkippedFields, VariedFields, OtherFields}}
    \cup {JsonObject(MkObj(SkippedFields, {}, PresetQualified))}
    \cup {[form |-> "garbage", top |-> [kind |-> "null", obj |-> EmptyObj]],
          [form |-> "embedded_bad", top |-> [kind |-> "null", obj |-> EmptyObj]],
          [form |-> "json", top |-> [kind |-> "array", obj |-> EmptyObj]]}

Error500 == [NoResp EXCEPT !.status = "error"]

\* extract_lead on each reply, on each day
Extracted == [t \in Todays |-> [p \in IngestReplies |-> extract_lead(p, t)]]

\* worker r takes the next request: it is the first that has none in hand
Free(r) ==
    /\ pc[r] \in {"idle", "done"}
    /\ \A q \in 1..(r - 1) : pc[q] \notin {"idle", "done"}

\* lines 348 and 193: whether the update is issued
needs_update_always(flag) == TRUE

needs_update(flag) == ~flag

\* lines 346-353 and 190-206: a row found, before the qualification gate
after_lookup_gate_first(m, qualified) ==
    IF ~qualified THEN "skipped"
    ELSE IF m # {} THEN "duplicate" ELSE "insert"

after_lookup(m, qualified) ==
    IF m # {} THEN "duplicate"
    ELSE IF ~qualified THEN "skipped" ELSE "insert"

Found(i) ==
    [NoPost EXCEPT !.looked = TRUE, !.matched = leads[i].id,
                   !.flagged = leads[i].duplicate_flag,
                   !.seen_row = leads[i],
                   !.outcome = IF needs_update(leads[i].duplicate_flag)
                               THEN "none" ELSE "duplicate"]

\* lines 301-353: extraction, the dict to store, the lookup, and what
\* follows it without another storage call
IngestReceive(r) ==
    /\ Free(r)
    /\ arrivals < MaxArrivals
    /\ arrivals' = arrivals + 1
    /\ kind' = [kind EXCEPT ![r] = "ingest"]
    /\ \E p \in IngestReplies :
          LET x == Extracted[today][p]
              data == ingest_data(x.lead)
              qualified == ingest_qualified(x.lead)
              m == Matches(data.dedupe_key)
              seen == [reply |-> p, key |-> data.dedupe_key, found |-> m,
                       qualified |-> x.lead.qualified = Yes]
          IN  \/ /\ x.status # "ok"
                 /\ resp' = [resp EXCEPT ![r] = Error500]
                 /\ pc' = [pc EXCEPT ![r] = "done"]
                 /\ post' = [post EXCEPT ![r] =
                       [NoPost EXCEPT !.reply = p, !.outcome = "failed"]]
                 /\ UNCHANGED <<rec, qual, row, failures>>
              \/ /\ x.status = "ok"
                 /\ failures < MaxFailures
                 /\ failures' = failures + 1
                 /\ resp' = [resp EXCEPT ![r] = Error500]
                 /\ pc' = [pc EXCEPT ![r] = "done"]
                 /\ post' = [post EXCEPT ![r] =
                       [NoPost EXCEPT !.reply = p,
                                      !.key = data.dedupe_key,
                                      !.qualified = seen.qualified,
                                      !.outcome = "failed"]]
                 /\ UNCHANGED <<rec, qual, row>>
              \/ /\ x.status = "ok"
                 /\ after_lookup(m, qualified) = "duplicate"
                 /\ \E i \in m :
                       /\ row' = [row EXCEPT ![r] =
                             [id |-> leads[i].id,
                              duplicate_flag |-> leads[i].duplicate_flag]]
                       /\ post' = [post EXCEPT ![r] = seen @@ Found(i)]
                       /\ IF needs_update(leads[i].duplicate_flag)
                          THEN /\ pc' = [pc EXCEPT ![r] = "update"]
                               /\ resp' = [resp EXCEPT ![r] = NoResp]
                          ELSE /\ pc' = [pc EXCEPT ![r] = "done"]
                               /\ resp' = [resp EXCEPT ![r] =
                                     [NoResp EXCEPT !.status = "duplicate",
                                                    !.lead_id = leads[i].id]]
                 /\ rec' = [rec EXCEPT ![r] = data]
                 /\ qual' = [qual EXCEPT ![r] = qualified]
                 /\ UNCHANGED failures
              \/ /\ x.status = "ok"
                 /\ after_lookup(m, qualified) = "skipped"
                 /\ pc' = [pc EXCEPT ![r] = "done"]
                 /\ resp' = [resp EXCEPT ![r] =
                       [NoResp EXCEPT !.status = "skipped",
                                      !.reason = data.skip_reason]]
                 /\ post' = [post EXCEPT ![r] =
                       seen @@ [NoPost EXCEPT !.looked = TRUE,
                                              !.outcome = "skipped"]]
                 /\ rec' = [rec EXCEPT ![r] = data]
                 /\ qual' = [qual EXCEPT ![r] = qualified]
                 /\ UNCHANGED <<row, failures>>
              \/ /\ x.status = "ok"
                 /\ after_lookup(m, qualified) = "insert"
                 /\ pc' = [pc EXCEPT ![r] = "insert"]
                 /\ resp' = [resp EXCEPT ![r] = NoResp]
                 /\ post' = [post EXCEPT ![r] =
                       seen @@ [NoPost EXCEPT !.looked = TRUE]]
                 /\ rec' = [rec EXCEPT ![r] = data]
                 /\ qual' = [qual EXCEPT ![r] = qualified]
                 /\ UNCHANGED <<row, failures>>
    /\ UNCHANGED <<today, raw, xres, leads, jobs, jx, oai, new_count>>

\* the update or the insert raises: lines 361-363
IngestStorageFails(r) ==
    /\ kind[r] = "ingest"
    /\ pc[r] \in {"update", "insert"}
    /\ failures < MaxFailures
    /\ failures' = failures + 1
    /\ resp' = [resp EXCEPT ![r] = Error500]
    /\ pc' = [pc EXCEPT ![r] = "done"]
    /\ post' = [post EXCEPT ![r].outcome = "failed"]
    /\ UNCHANGED <<today, raw, xres, leads, kind, rec, qual, row, jobs, jx, oai,
                   new_count, arrivals>>

\* lines 349-350
IngestUpdate(r) ==
    /\ kind[r] = "ingest"
    /\ pc[r] = "update"
    /\ leads' = set_duplicate(leads, row[r].id)
    /\ pc' = [pc EXCEPT ![r] = "done"]
    /\ resp' = [resp EXCEPT ![r] =
          [NoResp EXCEPT !.status = "duplicate", !.lead_id = row[r].id]]
    /\ post' = [post EXCEPT ![r].updates = @ + 1, ![r].outcome = "duplicate"]
    /\ UNCHANGED <<today, raw, xres, kind, rec, qual, row, jobs, jx, oai,
                   new_count, arrivals, failures>>

\* lines 355-358
IngestInsert(r) ==
    /\ kind[r] = "ingest"
    /\ pc[r] = "insert"
    /\ pc' = [pc EXCEPT ![r] = "done"]
    /\ \/ /\ leads' = Append(leads, new_row(leads, rec[r]))
          /\ resp' = [resp EXCEPT ![r] =
                [NoResp EXCEPT !.status = "stored", !.lead_id = Len(leads) + 1]]
          /\ post' = [post EXCEPT ![r].inserted = {Len(leads) + 1},
                        ![r].inserted_row = new_row(leads, rec[r]),
                        ![r].outcome = "stored"]
          /\ UNCHANGED failures
       \/ /\ failures < MaxFailures
          /\ failures' = failures + 1
          /\ resp' = [resp EXCEPT ![r] = Error500]
          /\ post' = [post EXCEPT ![r].outcome = "failed"]
          /\ UNCHANGED leads
    /\ UNCHANGED <<today, raw, xres, kind, rec, qual, row, jobs, jx, oai,
                   new_count, arrivals>>

(***************************************************************************)
(* /scrape                                                                 *)
(***************************************************************************)
JobA == [ad_url |-> <<"h", "t", "t", "p", "s", ":", "/", "/", "w", "w", "w", ".", "s", "e", "e", "k", ".", "c", "o", "m", ".", "a", "u", "/", "j", "o", "b", "/", "1">>, source_subject |-> <<"E", "l", "e", "c", "t", "r", "i", "c", "i", "a", "n", " ", "-", " ", "A", "c", "m", "e">>]
JobB == [ad_url |-> <<"h", "t", "t", "p", "s", ":", "/", "/", "w", "w", "w", ".", "s", "e", "e", "k", ".", "c", "o", "m", ".", "a", "u", "/", "j", "o", "b", "/", "2">>, source_subject |-> <<"S", "e", "n", "i", "o", "r", " ", "E", "l", "e", "c", "t", "r", "i", "c", "i", "a", "n", " ", "|", " ", "B", "o", "l", "t">>]
JobC == [ad_url |-> <<"h", "t", "t", "p", "s", ":", "/", "/", "w", "w", "w", ".", "s", "e", "e", "k", ".", "c", "o", "m", ".", "a", "u", "/", "j", "o", "b", "/", "3">>, source_subject |-> <<"A", "p", "p", "r", "e", "n", "t", "i", "c", "e">>]

JobPool == {JobA, JobB}

\* what scrape_seek can return: jobs with distinct, non-empty ad_url
JobLists ==
    {js \in UNION {[1..n -> JobPool] : n \in 0..MaxJobs} :
        \A i, j \in 1..Len(js) : i # j => js[i].ad_url # js[j].ad_url}

ReplyObject(o) == [kind |-> "object", obj |-> o]

\* what the model call can do
ModelReplies ==
    {ReplyObject([k \in {"Company", "Roles Advertised", "Qualified"} |->
        CASE k = "Company" -> JStr(OtherCompany)
          [] k = "Roles Advertised" -> JStr(MockRole)
          [] OTHER -> PyTrue]),
     ReplyObject([k \in {"Company", "Qualified", "Skip Reason"} |->
        CASE k = "Company" -> JStr(OtherCompany)
          [] k = "Qualified" -> PyFalse
          [] OTHER -> JStr(AgencyReason)]),
     ReplyObject([k \in {"Qualified"} |-> JStr(No)]),
     [kind |-> "raise", obj |-> EmptyObj]}

\* lines 179-186
lead_record_of(job, processed) ==
    LET merged == processed @@ [k \in {"ad_url", "source_subject"} |-> JStr(job[k])]
    IN  IF merged.dedupe_key # <<>> THEN merged
        ELSE [merged EXCEPT !.dedupe_key =
                Lower(PyStrOf(merged.company) \o <<"-">>
                      \o PyStrOf(merged.roles_advertised) \o <<"-">>
                      \o PyStrOf(merged.ad_url))]

\* lines 178-186 on each job, with and without a client, for each reply
Processed ==
    [client \in BOOLEAN |-> [job \in JobPool |-> [reply \in ModelReplies |->
        lead_record_of(job,
            process_lead_with_openai(client, job.source_subject, job.ad_url,
                                     reply))]]]

\* lines 134-174: the jobs are scraped; SKIP_DB, which main.py reads and
\* never binds, is a flag of the deployment
ScrapeReceive(r) ==
    /\ Free(r)
    /\ arrivals < MaxArrivals
    /\ kind' = [kind EXCEPT ![r] = "scrape"]
    /\ post' = [post EXCEPT ![r] = NoPost]
    /\ \/ \E js \in JobLists :
            /\ js # <<>>
            /\ arrivals + Len(js) <= MaxArrivals
            /\ arrivals' = arrivals + Len(js)
            /\ jobs' = [jobs EXCEPT ![r] = js]
            /\ jx' = [jx EXCEPT ![r] = 1]
            /\ pc' = [pc EXCEPT ![r] = "process"]
            /\ resp' = [resp EXCEPT ![r] = NoResp]
       \/ \E skip_db \in BOOLEAN :
            /\ arrivals' = arrivals + 1
            /\ pc' = [pc EXCEPT ![r] = "done"]
            /\ resp' = [resp EXCEPT ![r] =
                  [NoResp EXCEPT !.status = IF skip_db THEN "no_db" ELSE "no_jobs"]]
            /\ UNCHANGED <<jobs, jx>>
       \/ /\ arrivals' = arrivals + 1
          /\ pc' = [pc EXCEPT ![r] = "done"]
          /\ resp' = [resp EXCEPT ![r] = Error500]
          /\ UNCHANGED <<jobs, jx>>
    /\ new_count' = [new_count EXCEPT ![r] = 0]
    /\ UNCHANGED <<today, raw, xres, leads, rec, qual, row, oai, failures>>

\* `continue`, or the end of the loop and line 215
NextJob(r, n) ==
    IF jx[r] < Len(jobs[r])
    THEN /\ jx' = [jx EXCEPT ![r] = @ + 1]
         /\ pc' = [pc EXCEPT ![r] = "process"]
         /\ UNCHANGED resp
    ELSE /\ pc' = [pc EXCEPT ![r] = "done"]
         /\ resp' = [resp EXCEPT ![r] =
               [NoResp EXCEPT !.status = "complete", !.count = n]]
         /\ UNCHANGED jx

\* lines 176-206: the next job is processed and looked up, and what follows
\* the lookup without another storage call
ScrapeProcess(r) ==
    /\ kind[r] = "scrape"
    /\ pc[r] = "process"
    /\ \E reply \in ModelReplies :
          LET job == jobs[r][jx[r]]
              lr == Processed[oai][job][reply]
              m == Matches(lr.dedupe_key)
              seen == [key |-> lr.dedupe_key, found |-> m,
                       qualified |-> Truthy(lr.qualified)]
          IN  \/ /\ failures < MaxFailures
                 /\ failures' = failures + 1
                 /\ resp' = [resp EXCEPT ![r] = Error500]
                 /\ pc' = [pc EXCEPT ![r] = "done"]
                 /\ post' = [post EXCEPT ![r] =
                       [NoPost EXCEPT !.key = lr.dedupe_key,
                                      !.qualified = seen.qualified,
                                      !.outcome = "failed"]]
                 /\ UNCHANGED <<rec, row, jx>>
              \/ /\ after_lookup(m, Truthy(lr.qualified)) = "duplicate"
                 /\ \E i \in m :
                       /\ row' = [row EXCEPT ![r] =
                             [id |-> leads[i].id,
                              duplicate_flag |-> leads[i].duplicate_flag]]
                       /\ post' = [post EXCEPT ![r] = seen @@ Found(i)]
                       /\ IF needs_update(leads[i].duplicate_flag)
                          THEN /\ pc' = [pc EXCEPT ![r] = "update"]
                               /\ UNCHANGED <<resp, jx>>
                          ELSE NextJob(r, new_count[r])
                 /\ rec' = [rec EXCEPT ![r] = lr]
                 /\ UNCHANGED failures
              \/ /\ after_lookup(m, Truthy(lr.qualified)) = "skipped"
                 /\ post' = [post EXCEPT ![r] =
                       seen @@ [NoPost EXCEPT !.looked = TRUE,
                                              !.outcome = "skipped"]]
                 /\ NextJob(r, new_count[r])
                 /\ rec' = [rec EXCEPT ![r] = lr]
                 /\ UNCHANGED <<row, failures>>
              \/ /\ after_lookup(m, Truthy(lr.qualified)) = "insert"
                 /\ pc' = [pc EXCEPT ![r] = "insert"]
                 /\ post' = [post EXCEPT ![r] =
                       seen @@ [NoPost EXCEPT !.looked = TRUE]]
                 /\ rec' = [rec EXCEPT ![r] = lr]
                 /\ UNCHANGED <<resp, row, jx, failures>>
    /\ UNCHANGED <<today, raw, xres, leads, kind, qual, jobs, oai, new_count,
                   arrivals>>

\* the update or the insert raises: lines 217-219
ScrapeStorageFails(r) ==
    /\ kind[r] = "scrape"
    /\ pc[r] \in {"update", "insert"}
    /\ failures < MaxFailures
    /\ failures' = failures + 1
    /\ resp' = [resp EXCEPT ![r] = Error500]
    /\ pc' = [pc EXCEPT ![r] = "done"]
    /\ post' = [post EXCEPT ![r].outcome = "failed"]
    /\ UNCHANGED <<today, raw, xres, leads, kind, rec, qual, row, jobs, jx, oai,
                   new_count, arrivals>>

\* lines 194-196
ScrapeUpdate(r) ==
    /\ kind[r] = "scrape"
    /\ pc[r] = "update"
    /\ leads' = set_duplicate(leads, row[r].id)
    /\ post' = [post EXCEPT ![r].updates = @ + 1, ![r].outcome = "duplicate"]
    /\ NextJob(r, new_count[r])
    /\ UNCHANGED <<today, raw, xres, kind, rec, qual, row, jobs, oai,
                   new_count, arrivals, failures>>

\* lines 208-213
ScrapeInsert(r) ==
    /\ kind[r] = "scrape"
    /\ pc[r] = "insert"
    /\ \/ /\ leads' = Append(leads, new_row(leads, rec[r]))
          /\ new_count' = [new_count EXCEPT ![r] = @ + 1]
          /\ post' = [post EXCEPT ![r].inserted = {Len(leads) + 1},
                        ![r].inserted_row = new_row(leads, rec[r]),
                        ![r].outcome = "stored"]
          /\ NextJob(r, new_count[r] + 1)
          /\ UNCHANGED failures
       \/ /\ failures < MaxFailures
          /\ failures' = failures + 1
          /\ post' = [post EXCEPT ![r].outcome = "insert_failed"]
          /\ NextJob(r, new_count[r])
          /\ UNCHANGED <<leads, new_count>>
    /\ UNCHANGED <<today, raw, xres, kind, rec, qual, row, jobs, oai, arrivals>>

Pending == [status |-> "pending", lead |-> NoLead]

(***************************************************************************)
(* GET /leads and GET /metrics: reads of the table                         *)
(***************************************************************************)
MaxRows == 3

\* limit(500) of line 230, scaled down so that tables above it are reached
LeadsLimit == 2

\* value LIKE pattern: "%" stands for any text, "_" for any one character
RECURSIVE LikeMatch(_, _)
LikeMatch(s, pat) ==
    IF pat = <<>> THEN s = <<>>
    ELSE IF Head(pat) = "%"
         THEN \/ LikeMatch(s, Tail(pat))
              \/ s # <<>> /\ LikeMatch(Tail(s), pat)
         ELSE /\ s # <<>>
              /\ Head(pat) = "_" \/ Head(pat) = Head(s)
              /\ LikeMatch(Tail(s), Tail(pat))

\* q.ilike(column, f"%{text}%") on one value of the column; NULL never matches
ilike(value, text) ==
    /\ value.kind = "str"
    /\ LikeMatch(Lower(value.s), <<"%">> \o Lower(text) \o <<"%">>)

\* lines 233-238: the filters that are supplied, all of them
passes_filters(r, role, town, state) ==
    /\ Truthy(role) => ilike(r.roles_advertised, role.s)
    /\ Truthy(town) => ilike(r.location, town.s)
    /\ Truthy(state) => ilike(r.location, state.s)

\* order("created_at", desc=True): the rows of the set, newest first
RECURSIVE newest_first(_)
newest_first(rows) ==
    IF rows = {} THEN <<>>
    ELSE LET top == CHOOSE r \in rows :
                        \A o \in rows : o.created_at <= r.created_at
         IN  <<top>> \o newest_first(rows \ {top})

first_rows(s, n) == SubSeq(s, 1, IF Len(s) < n THEN Len(s) ELSE n)

\* get_leads_from_db: lines 230-241, with n the limit
get_leads(table, role, town, state, n) ==
    first_rows(
        newest_first({table[i] : i \in {j \in 1..Len(table) :
                        passes_filters(table[j], role, town, state)}}),
        n)

\* get_metrics_from_db with the duplicates taken off the rows counted high
get_metrics_high_unique(table) ==
    LET total == Len(table)
        duplicates == Cardinality({i \in 1..total : table[i].duplicate_flag})
    IN  [status |-> "metrics",
         total_leads |-> total,
         unique_leads |-> total - duplicates,
         high_priority_leads |->
            Cardinality({i \in 1..total :
                /\ table[i].priority # JNull
                /\ NumVal(table[i].priority.s) >= 4
                /\ ~table[i].duplicate_flag}),
         duplicates_found |-> duplicates]

\* get_metrics_from_db: lines 251-264
get_metrics(table) ==
    LET total == Len(table)
        duplicates == Cardinality({i \in 1..total : table[i].duplicate_flag})
    IN  [status |-> "metrics",
         total_leads |-> total,
         unique_leads |-> total - duplicates,
         high_priority_leads |->
            Cardinality({i \in 1..total :
                /\ table[i].priority # JNull
                /\ NumVal(table[i].priority.s) >= 4}),
         duplicates_found |-> duplicates]

\* rows as the table holds them: the columns the reads look at
Electrician == <<"E", "l", "e", "c", "t", "r", "i", "c", "i", "a", "n">>
Plumber == <<"P", "l", "u", "m", "b", "e", "r">>
AdelaideSA == <<"A", "d", "e", "l", "a", "i", "d", "e", " ", "S", "A">>
PerthWA == <<"P", "e", "r", "t", "h", " ", "W", "A">>

StoredRows ==
    {[roles_advertised |-> JStr(Electrician), location |-> JStr(AdelaideSA),
      priority |-> JInt(<<"4">>), duplicate_flag |-> FALSE],
     [roles_advertised |-> JStr(Electrician), location |-> JStr(PerthWA),
      priority |-> JInt(<<"2">>), duplicate_flag |-> TRUE],
     [roles_advertised |-> JStr(Plumber), location |-> JStr(AdelaideSA),
      priority |-> JNull, duplicate_flag |-> FALSE],
     [roles_advertised |-> JStr(Electrician), location |-> JNull,
      priority |-> JInt(<<"9">>), duplicate_flag |-> TRUE]}

\* the tables of up to MaxRows rows, id and created_at in order of insertion
Tables ==
    {[i \in 1..Len(s) |-> new_row(SubSeq(s, 1, i - 1), s[i])] :
        s \in UNION {[1..k -> StoredRows] : k \in 0..MaxRows}}

\* the query parameters of /leads: absent, empty, a substring in another
\* case, one with a "_" in it
RoleFilters ==
    {JNull, JStr(Empty), JStr(<<"E", "L", "E", "C">>), JStr(<<"e", "l", "e", "c", "_", "r", "i", "c", "i", "a", "n">>), JStr(<<"p", "l", "u", "m", "b">>)}

TownFilters == {JNull, JStr(<<"a", "d", "e", "l">>)}

StateFilters == {JNull, JStr(<<"s", "a">>), JStr(<<"%">>)}

NoQuery == [role |-> JNull, town |-> JNull, state |-> JNull]

InitRead ==
    /\ today = Today1
    /\ raw = JsonObject(MkObj(MockFields, {}, EmptyObj))
    /\ xres = Pending
    /\ leads \in Tables
    /\ pc = [r \in Reqs |-> "idle"]
    /\ kind = [r \in Reqs |-> "none"]
    /\ rec = [r \in Reqs |-> NoQuery]
    /\ qual = [r \in Reqs |-> FALSE]
    /\ row = [r \in Reqs |-> NoRow]
    /\ resp = [r \in Reqs |-> NoResp]
    /\ jobs = [r \in Reqs |-> <<>>]
    /\ jx = [r \in Reqs |-> 0]
    /\ oai = FALSE
    /\ new_count = [r \in Reqs |-> 0]
    /\ post = [r \in Reqs |-> NoPost]
    /\ arrivals = 0
    /\ failures = 0

\* GET /leads, answered from one select; rec[1] keeps the query parameters
GetLeads ==
    /\ pc[1] = "idle"
    /\ \E role \in RoleFilters, town \in TownFilters, state \in StateFilters :
          /\ rec' = [rec EXCEPT ![1] =
                [role |-> role, town |-> town, state |-> state]]
          /\ resp' = [resp EXCEPT ![1] =
                [status |-> "leads",
                 rows |-> get_leads(leads, role, town, state, LeadsLimit)]]
    /\ kind' = [kind EXCEPT ![1] = "leads"]
    /\ pc' = [pc EXCEPT ![1] = "done"]
    /\ UNCHANGED <<today, raw, xres, leads, qual, row, jobs, jx, oai,
                   new_count, post, arrivals, failures>>

\* GET /metrics, answered from one select
GetMetrics ==
    /\ pc[1] = "idle"
    /\ resp' = [resp EXCEPT ![1] = get_metrics(leads)]
    /\ kind' = [kind EXCEPT ![1] = "metrics"]
    /\ pc' = [pc EXCEPT ![1] = "done"]
    /\ UNCHANGED <<today, raw, xres, leads, rec, qual, row, jobs, jx, oai,
                   new_count, post, arrivals, failures>>

NextRead == GetLeads \/ GetMetrics

SpecRead == InitRead /\ [][NextRead]_vars

(***************************************************************************)
(* process_lead_with_openai on its own                                     *)
(***************************************************************************)
TitleLeader == <<" ", " ", "T", "e", "a", "m", " ", "L", "e", "a", "d", "e", "r", " ", " ">>
TitleManager == <<"S", "i", "t", "e", " ", "M", "a", "n", "a", "g", "e", "r", "ENDASH", "V", "o", "l", "t">>
TitleTwoSeparators == <<"E", "l", "e", "c", "t", "r", "i", "c", "i", "a", "n", " ", "-", " ", "A", "c", "m", "e", " ", "|", " ", "B", "o", "l", "t">>
TitleOnePart == <<"S", "p", "a", "r", "k", "y", " ", "-", " ">>
PaddedUrl == <<" ", "h", "t", "t", "p", "s", ":", "/", "/", "w", "w", "w", ".", "s", "e", "e", "k", ".", "c", "o", "m", ".", "a", "u", "/", "j", "o", "b", "/", "9", " ">>

\* titles: with a separator, with none, empty, padded, with two separators,
\* with a separator and one part only
Titles ==
    {JobA.source_subject, JobB.source_subject, JobC.source_subject, Empty,
     TitleLeader, TitleManager, TitleTwoSeparators, TitleOnePart}

Urls == {JobA.ad_url, PaddedUrl, Empty}

\* replies on which lines 57-99 raise: the call fails, the content is no
\* mapping, the role is a number
RaisingReplies ==
    {[kind |-> "raise", obj |-> EmptyObj],
     [kind |-> "nonmapping", obj |-> EmptyObj],
     ReplyObject([k \in {"Company", "Roles Advertised"} |->
        IF k = "Company" THEN JStr(OtherCompany) ELSE JInt(SomePhone)])}

ProcessReplies ==
    ModelReplies \cup RaisingReplies
    \cup {[kind |-> "notjson", obj |-> EmptyObj], ReplyObject(EmptyObj)}

\* worker 1 is about to call process_lead_with_openai on one job
InitProcess ==
    /\ today = Today1
    /\ raw = JsonObject(MkObj(MockFields, {}, EmptyObj))
    /\ xres = Pending
    /\ leads = <<>>
    /\ pc = [r \in Reqs |-> IF r = 1 THEN "process" ELSE "idle"]
    /\ kind = [r \in Reqs |-> IF r = 1 THEN "process_lead" ELSE "none"]
    /\ rec = [r \in Reqs |-> EmptyObj]
    /\ qual = [r \in Reqs |-> FALSE]
    /\ row = [r \in Reqs |-> NoRow]
    /\ resp = [r \in Reqs |-> NoResp]
    /\ \E title \in Titles, url \in Urls :
          jobs = [r \in Reqs |->
                    IF r = 1 THEN <<[ad_url |-> url, source_subject |-> title]>>
                    ELSE <<>>]
    /\ jx = [r \in Reqs |-> IF r = 1 THEN 1 ELSE 0]
    /\ oai \in BOOLEAN
    /\ new_count = [r \in Reqs |-> 0]
    /\ post = [r \in Reqs |-> NoPost]
    /\ arrivals = 0
    /\ failures = 0

\* one call of process_lead_with_openai; post[1].reply keeps what the model
\* call did
ProcessLead ==
    /\ kind[1] = "process_lead"
    /\ pc[1] = "process"
    /\ \E reply \in ProcessReplies :
          /\ rec' = [rec EXCEPT ![1] =
                process_lead_with_openai(oai, jobs[1][1].source_subject,
                                         jobs[1][1].ad_url, reply)]
          /\ post' = [post EXCEPT ![1].reply = reply]
    /\ pc' = [pc EXCEPT ![1] = "done"]
    /\ UNCHANGED <<today, raw, xres, leads, kind, qual, row, resp, jobs, jx,
                   oai, new_count, arrivals, failures>>

NextProcess == ProcessLead

SpecProcess == InitProcess /\ [][NextProcess]_vars


InitExtract ==
    /\ today \in Todays
    /\ raw \in RawContents
    /\ xres = Pending
    /\ InitDb

\* one call of extract_lead on the reply
ExtractLead ==
    /\ xres.status = "pending"
    /\ xres' = extract_lead(raw, today)
    /\ UNCHANGED <<today, raw>>
    /\ UNCHANGED dbvars

NextExtract == ExtractLead

SpecExtract == InitExtract /\ [][NextExtract]_vars

\* extract_lead on the replies that lack keys
InitMissing ==
    /\ today \in Todays
    /\ raw \in MissingReplies
    /\ xres = Pending
    /\ InitDb

NextMissing == ExtractLead

SpecMissing == InitMissing /\ [][NextMissing]_vars

(***************************************************************************)
(* The service: requests of /ingest and /scrape on the table               *)
(***************************************************************************)
Init ==
    /\ today = Today1
    /\ raw = JsonObject(MkObj(MockFields, {}, EmptyObj))
    /\ xres = Pending
    /\ InitDb

Next ==
    \E r \in Reqs :
        \/ IngestReceive(r)
        \/ IngestUpdate(r)
        \/ IngestInsert(r)
        \/ IngestStorageFails(r)
        \/ ScrapeReceive(r)
        \/ ScrapeProcess(r)
        \/ ScrapeUpdate(r)
        \/ ScrapeInsert(r)
        \/ ScrapeStorageFails(r)

Spec == Init /\ [][Next]_vars

\* the requests served one at a time, by one worker, from an empty table
NextSeq ==
    \/ IngestReceive(1)
    \/ IngestUpdate(1)
    \/ IngestInsert(1)
    \/ IngestStorageFails(1)
    \/ ScrapeReceive(1)
    \/ ScrapeProcess(1)
    \/ ScrapeUpdate(1)
    \/ ScrapeInsert(1)
    \/ ScrapeStorageFails(1)

SpecSeq == Init /\ [][NextSeq]_vars

(***************************************************************************)
(* scraper.py: _parse_job_cards and scrape_seek                            *)
(***************************************************************************)
MaxPages == 3

MaxAnchors == 2

SEEK_BASE_URL == <<"h", "t", "t", "p", "s", ":", "/", "/", "w", "w", "w", ".", "s", "e", "e", "k", ".", "c", "o", "m", ".", "a", "u">>

JobPath == <<"/", "j", "o", "b", "/">>
JobsPath == <<"/", "j", "o", "b", "s", "/">>

\* the <a href> elements of a page: a job with its title as text, a job with
\* its title in aria-label, a link that is no job, a job link with no title
Anchors ==
    {[href |-> <<"/", "j", "o", "b", "/", "1">>, text |-> JobA.source_subject, aria |-> Empty],
     [href |-> <<"/", "j", "o", "b", "/", "2">>, text |-> <<" ">>,
      aria |-> JobB.source_subject \o <<" ">>],
     [href |-> <<"/", "a", "b", "o", "u", "t">>, text |-> <<"A", "b", "o", "u", "t">>, aria |-> Empty],
     [href |-> <<"/", "j", "o", "b", "/", "3">>, text |-> Empty, aria |-> Empty]}

\* lines 32-40: the cards of the page, one for each job link with a title
RECURSIVE card_results(_)
card_results(html) ==
    IF html = <<>> THEN <<>>
    ELSE LET a == Head(html)
             title == IF Strip(a.text) # <<>> THEN Strip(a.text)
                      ELSE Strip(a.aria)
         IN  IF ~Contains(a.href, JobPath) /\ ~Contains(a.href, JobsPath)
             THEN card_results(Tail(html))
             ELSE IF title = <<>> THEN card_results(Tail(html))
             ELSE <<[ad_url |-> SEEK_BASE_URL \o a.href,
                     source_subject |-> title]>>
                  \o card_results(Tail(html))

\* lines 41-48: the first card of each ad_url
RECURSIVE dedupe_cards(_, _)
dedupe_cards(results, seen) ==
    IF results = <<>> THEN <<>>
    ELSE IF Head(results).ad_url \in seen
         THEN dedupe_cards(Tail(results), seen)
         ELSE <<Head(results)>>
              \o dedupe_cards(Tail(results), seen \cup {Head(results).ad_url})

_parse_job_cards(html) == dedupe_cards(card_results(html), {})

\* lines 116-123: the jobs of one page added to all_jobs and seen
RECURSIVE add_new(_, _)
add_new(acc, page_jobs) ==
    IF page_jobs = <<>> THEN acc
    ELSE LET j == Head(page_jobs)
         IN  IF j.ad_url = <<>> \/ j.ad_url \in acc.seen
             THEN add_new(acc, Tail(page_jobs))
             ELSE add_new([all_jobs |-> Append(acc.all_jobs, j),
                           seen |-> acc.seen \cup {j.ad_url},
                           new_found |-> acc.new_found + 1],
                          Tail(page_jobs))

\* the loop going on whatever a page contributes
stops_after_empty_only(page_jobs, new_found) == page_jobs = <<>>

\* lines 114-115 and 125-126: the two breaks
stops_after(page_jobs, new_found) == page_jobs = <<>> \/ new_found = 0

\* the pages of the site, each a list of anchors
Htmls == UNION {[1..n -> Anchors] : n \in 0..MaxAnchors}

\* line 106: what fetch_seek_page returns for each page
fetch_seek_page == [html \in Htmls |-> _parse_job_cards(html)]

\* a call scrape_seek(role, location, pages) on a site: jobs[1] is all_jobs,
\* jx[1] the page p of the loop, rec[1] the argument, the pages of the site
\* that the call can ask for, the set seen
\* and the pages whose fetch has returned
InitSeek ==
    /\ today = Today1
    /\ raw = JsonObject(MkObj(MockFields, {}, EmptyObj))
    /\ xres = Pending
    /\ leads = <<>>
    /\ pc = [r \in Reqs |-> IF r = 1 THEN "loop" ELSE "idle"]
    /\ kind = [r \in Reqs |-> IF r = 1 THEN "scrape_seek" ELSE "none"]
    /\ \E n \in (0 - 1)..MaxPages : \E site \in [1..n -> Htmls] :
          rec = [r \in Reqs |->
                    IF r = 1
                    THEN [pages |-> n, site |-> site, seen |-> {},
                          fetched |-> <<>>]
                    ELSE EmptyObj]
    /\ qual = [r \in Reqs |-> FALSE]
    /\ row = [r \in Reqs |-> NoRow]
    /\ resp = [r \in Reqs |-> NoResp]
    /\ jobs = [r \in Reqs |-> <<>>]
    /\ jx = [r \in Reqs |-> IF r = 1 THEN 1 ELSE 0]
    /\ oai = FALSE
    /\ new_count = [r \in Reqs |-> 0]
    /\ post = [r \in Reqs |-> NoPost]
    /\ arrivals = 0
    /\ failures = 0

\* lines 112-126: one turn of the loop, the fetch returning
SeekPage ==
    /\ kind[1] = "scrape_seek"
    /\ pc[1] = "loop"
    /\ jx[1] <= rec[1].pages
    /\ LET page_jobs == fetch_seek_page[rec[1].site[jx[1]]]
           acc == add_new([all_jobs |-> jobs[1], seen |-> rec[1].seen,
                           new_found |-> 0],
                          page_jobs)
       IN  /\ jobs' = [jobs EXCEPT ![1] = acc.all_jobs]
           /\ rec' = [rec EXCEPT ![1].seen = acc.seen,
                                 ![1].fetched = Append(@, jx[1])]
           /\ IF stops_after(page_jobs, acc.new_found)
              THEN pc' = [pc EXCEPT ![1] = "done"] /\ UNCHANGED jx
              ELSE jx' = [jx EXCEPT ![1] = @ + 1] /\ UNCHANGED pc
    /\ UNCHANGED <<today, raw, xres, leads, kind, qual, row, resp, oai,
                   new_count, post, arrivals, failures>>

\* line 113: the fetch raises, and the exception leaves scrape_seek
SeekFetchRaises ==
    /\ kind[1] = "scrape_seek"
    /\ pc[1] = "loop"
    /\ jx[1] <= rec[1].pages
    /\ pc' = [pc EXCEPT ![1] = "raised"]
    /\ UNCHANGED <<today, raw, xres, leads, kind, rec, qual, row, resp, jobs,
                   jx, oai, new_count, post, arrivals, failures>>

\* line 127: the range is exhausted, all_jobs is returned
SeekReturn ==
    /\ kind[1] = "scrape_seek"
    /\ pc[1] = "loop"
    /\ jx[1] > rec[1].pages
    /\ pc' = [pc EXCEPT ![1] = "done"]
    /\ UNCHANGED <<today, raw, xres, leads, kind, rec, qual, row, resp, jobs,
                   jx, oai, new_count, post, arrivals, failures>>

NextSeek == SeekPage \/ SeekFetchRaises \/ SeekReturn

SpecSeek == InitSeek /\ [][NextSeek]_vars

\* the event loop runs the coroutine on until it returns or raises
SpecSeekFair == SpecSeek /\ WF_vars(NextSeek)

(***************************************************************************)
(* Claims about extract_lead (checked under SpecExtract)                   *)
(***************************************************************************)
Returned == xres.status = "ok"

RuleHolds(lead, skipWord) ==
    /\ lead.skip = skipWord
    /\ lead.sector = Electrical
    /\ StartsWith(Lower(lead.employment_type), full)

\* C1 (its closing sentence, which it draws from the rule "qualified is
\* Yes if and only if skip is no, sector is Electrical and employment_type
\* starts with full; in every other case it is No"): whenever skip is "yes",
\* qualified is "No" whatever the sector and the employment type are.
C1_SkipYesNeverQualified ==
    (Returned /\ xres.lead.skip = yes) => xres.lead.qualified = No

\* the reply's own skip_reason, as validation reads it
GivenReason == FieldInput(raw.top.obj, "skip_reason").s

SectorReason(lead) == NotInElectricalPrefix \o lead.sector \o CloseParen

EmploymentReason(lead) == NotFullTimePrefix \o lead.employment_type \o CloseParen

ReasonNamesFirstFailure(lead) ==
    /\ lead.sector # Electrical => lead.skip_reason = SectorReason(lead)
    /\ (lead.sector = Electrical
        /\ ~StartsWith(Lower(lead.employment_type), full))
       => lead.skip_reason = EmploymentReason(lead)

\* C7 as stated: when skip is "no" and the lead is not qualified, skip_reason
\* is overwritten by a reason naming the first failing criterion, the sector
\* before the employment type.
C7_ReasonWhenSkipIsLowerNo ==
    (Returned /\ xres.lead.skip = no /\ ~RuleHolds(xres.lead, no))
        => ReasonNamesFirstFailure(xres.lead)

\* C7 amended: when skip is exactly "No" and the sector or the employment
\* type fails the rule, skip_reason is overwritten by the reason naming the
\* first failing criterion, the sector before the employment type; for any
\* other spelling of skip (such as "no") the reply's reason is kept.
C7_ReasonWhenSkipIsNo ==
    Returned =>
        /\ (xres.lead.skip = No /\ ~RuleHolds(xres.lead, No))
            => ReasonNamesFirstFailure(xres.lead)
        /\ xres.lead.skip # No => xres.lead.skip_reason = GivenReason

\* C7 witness: sector and employment type both fail, and the sector is named
C7_BothFailSectorNamed ==
    /\ Returned
    /\ xres.lead.skip = No
    /\ xres.lead.sector = Plumbing
    /\ xres.lead.employment_type = PartTime
    /\ GivenReason = AgencyReason
    /\ xres.lead.skip_reason = NotInElectricalPrefix \o Plumbing \o CloseParen

Weight(f) == IF f = "email" THEN 2 ELSE 1

Present(lead, f) == lead[f] # NA

\* the reply with field f set to text v
SetField(r, f, v) ==
    [r EXCEPT !.top.obj = [k \in {Alias[f]} |-> JStr(v)] @@ @]

\* C8: priority = 2*[email present] + [phone present] + [salary present];
\* it lies in 0..4, is 4 when all three are present, and making one absent
\* field present adds exactly that field's weight.
C8_PriorityIsWeightedSum ==
    Returned =>
        /\ xres.lead.priority =
              (IF Present(xres.lead, "email") THEN 2 ELSE 0)
            + (IF Present(xres.lead, "phone") THEN 1 ELSE 0)
            + (IF Present(xres.lead, "salary_info") THEN 1 ELSE 0)
        /\ xres.lead.priority \in 0..4
        /\ \A f \in {"email", "phone", "salary_info"} :
              ~Present(xres.lead, f) =>
                 LET other == extract_lead(SetField(raw, f, SomePhone), today)
                 IN  /\ other.status = "ok"
                     /\ other.lead.priority = xres.lead.priority + Weight(f)
                     /\ other.lead.priority >= xres.lead.priority

\* C8 witness: all three present, priority 4
C8_AllPresent ==
    /\ Returned
    /\ Present(xres.lead, "email")
    /\ Present(xres.lead, "phone")
    /\ Present(xres.lead, "salary_info")
    /\ xres.lead.priority = 4

KeyReplies == {JsonObject(MkObj(f, {}, EmptyObj)) : f \in KeyFields}

SparkyKey == <<"s", "p", "a", "r", "k", "y", " ", "c", "o", "|", "q", "u", "a", "l", "i", "f", "i", "e", "d", " ", "e", "l", "e", "c", "t", "r", "i", "c", "i", "a", "n">>

SentinelKey == <<"n", "/", "a", "|", "n", "/", "a">>

\* C9: dedupe_key = lower(trim(company)) + "|" + lower(trim(role)); replies
\* whose company and role agree up to case and outer whitespace get the same
\* key whatever their other fields; a sentinel company and role give "n/a|n/a".
C9_DedupeKeyNormalised ==
    Returned =>
        /\ xres.lead.dedupe_key =
              Lower(Strip(xres.lead.company)) \o Bar
              \o Lower(Strip(xres.lead.roles_advertised))
        /\ \A r2 \in KeyReplies :
              LET other == extract_lead(r2, today)
              IN  (/\ Lower(Strip(other.lead.company))
                        = Lower(Strip(xres.lead.company))
                   /\ Lower(Strip(other.lead.roles_advertised))
                        = Lower(Strip(xres.lead.roles_advertised)))
                  => other.lead.dedupe_key = xres.lead.dedupe_key
        /\ (xres.lead.company = NA /\ xres.lead.roles_advertised = NA)
              => xres.lead.dedupe_key = SentinelKey

\* C9 witness: company and role in a varied spelling, the canonical key
C9_VariedSpellingSameKey ==
    /\ Returned
    /\ xres.lead.company = MockCompanyVaried
    /\ xres.lead.roles_advertised = MockRoleVaried
    /\ xres.lead.dedupe_key = SparkyKey

\* C10: extract_lead fails only when the reply is no mapping; for a reply
\* that is a mapping it returns, and a field whose value is not text comes
\* out as the sentinel "N/A".
C10_MappingNeverFails ==
    (xres.status # "pending" /\ parse_raw(raw).status = "ok"
        /\ raw.top.kind = "object")
        => /\ Returned
           /\ \A f \in ExtractedNames :
                 FieldInput(raw.top.obj, f).kind # "str" => xres.lead[f] = NA

\* the reply is an object whose keys are labels or names of the fourteen
\* fields, every value a text
TextFieldsOnly ==
    /\ parse_raw(raw).status = "ok"
    /\ raw.top.kind = "object"
    /\ \A k \in DOMAIN raw.top.obj :
          /\ \E f \in ExtractedNames : k \in {f, Alias[f]}
          /\ raw.top.obj[k].kind = "str"

\* the text the reply supplies for field f, under its label or its name
HasKey(f) == Alias[f] \in DOMAIN raw.top.obj \/ f \in DOMAIN raw.top.obj

Supplied(f) ==
    IF Alias[f] \in DOMAIN raw.top.obj THEN raw.top.obj[Alias[f]].s
    ELSE raw.top.obj[f].s

SuppliedOrSentinel(f) ==
    xres.lead[f] = IF HasKey(f) THEN Supplied(f) ELSE NA

DateSuppliedOrToday(f) ==
    \/ HasKey(f) /\ ParsesAsDate(Supplied(f)) /\ xres.lead[f] = Supplied(f)
    \/ ~(HasKey(f) /\ ParsesAsDate(Supplied(f))) /\ xres.lead[f] = today

DateNames == {"date_posted", "entry_date"}

\* C11 as stated: for a reply lacking any subset of the fourteen keys, its
\* values all text, extract_lead returns, and each of the fourteen fields
\* of the lead is the value supplied, or "N/A" if none was; the two dates
\* alone may be replaced, by today.
C11_EveryFieldSuppliedOrSentinel ==
    (xres.status # "pending" /\ TextFieldsOnly) =>
        /\ Returned
        /\ \A f \in ExtractedNames \ DateNames : SuppliedOrSentinel(f)
        /\ \A f \in DateNames : DateSuppliedOrToday(f)

\* C11 amended: the same, except that skip_reason too may be replaced: when
\* skip is "No" and the sector or the employment type fails the rule, it is
\* the reason naming the first failing criterion.
C11_SuppliedSentinelOrRewrittenReason ==
    (xres.status # "pending" /\ TextFieldsOnly) =>
        /\ Returned
        /\ \A f \in ExtractedNames \ (DateNames \cup {"skip_reason"}) :
              SuppliedOrSentinel(f)
        /\ \A f \in DateNames : DateSuppliedOrToday(f)
        /\ IF xres.lead.skip = No /\ ~RuleHolds(xres.lead, No)
           THEN ReasonNamesFirstFailure(xres.lead)
           ELSE SuppliedOrSentinel("skip_reason")

\* C11 witness: a reply with none of the fourteen keys, a lead of sentinels
C11_AllMissingAllSentinel ==
    /\ Returned
    /\ DOMAIN raw.top.obj = {}
    /\ \A f \in ExtractedNames \ DateNames : xres.lead[f] = NA
    /\ \A f \in DateNames : xres.lead[f] = today

\* the reply is an object whose fields other than the two dates are text
OnlyDatesInDoubt ==
    /\ parse_raw(raw).status = "ok"
    /\ raw.top.kind = "object"
    /\ \A f \in SchemaNames \ DateNames : FieldValid(raw.top.obj, f)

DateIsText(f) == HasKey(f) /\ FieldInput(raw.top.obj, f).kind = "str"

\* C12: after extract_lead, date_posted and entry_date are dates of the
\* calendar written day/month/year: text that parses so is returned as it
\* is, and anything else (another format, no date, the sentinel, a missing
\* key, a value that is no text) becomes today's date, with no error.
C12_DatesValidOrToday ==
    (xres.status # "pending" /\ OnlyDatesInDoubt) =>
        /\ Returned
        /\ \A f \in DateNames :
              /\ ParsesAsDate(xres.lead[f])
              /\ IF DateIsText(f) /\ ParsesAsDate(Supplied(f))
                 THEN xres.lead[f] = Supplied(f)
                 ELSE xres.lead[f] = today

\* the field a key of the reply stands for, and the reply keyed by field
\* names throughout
NameOfKey(k) ==
    IF \E f \in ExtractedNames : Alias[f] = k
    THEN CHOOSE f \in ExtractedNames : Alias[f] = k
    ELSE k

KeyedByName(obj) ==
    [n \in {NameOfKey(k) : k \in DOMAIN obj} |->
        obj[CHOOSE k \in DOMAIN obj : NameOfKey(k) = n]]

KeyedByLabel(obj) ==
    \A k \in DOMAIN obj : k \notin ExtractedNames

\* C16: a reply keyed by the labels ("Roles Advertised", "Date Posted") and
\* the reply with the same values keyed by the field names
\* (roles_advertised, date_posted) give the same result: the same lead,
\* field by field, qualified, priority and dedupe_key included.
C16_LabelsAndNamesAgree ==
    (xres.status # "pending" /\ parse_raw(raw).status = "ok"
        /\ raw.top.kind = "object" /\ KeyedByLabel(raw.top.obj))
        => extract_lead([raw EXCEPT !.top.obj = KeyedByName(@)], today) = xres

\* C16 witness: a qualified lead from a reply keyed by labels, whose keys
\* all change when it is keyed by names
C16_QualifiedEitherWay ==
    /\ Returned
    /\ KeyedByLabel(raw.top.obj)
    /\ DOMAIN raw.top.obj = {Alias[f] : f \in ExtractedNames}
    /\ DOMAIN KeyedByName(raw.top.obj) = ExtractedNames
    /\ xres.lead.qualified = Yes
    /\ xres.lead.priority = 4

(***************************************************************************)
(* Claims about /ingest and /scrape on the table (checked under Spec)      *)
(***************************************************************************)
\* worker r ends an /ingest request in this step
IngestEnds(r) ==
    /\ kind'[r] = "ingest"
    /\ pc'[r] = "done"
    /\ pc[r] # "done" \/ post'[r] # post[r] \/ resp'[r] # resp[r]

\* the table after the step is the table before it with one row more
OneRowMore == /\ Len(leads') = Len(leads) + 1
              /\ SubSeq(leads', 1, Len(leads)) = leads

\* C2: every /ingest request whose extraction and storage calls succeed ends
\* in exactly one outcome, decided by what its lookup found: (a) rows with
\* its dedupe_key -> status "duplicate" with the id of the row found, and no
\* row inserted; (b) none and the lead not qualified -> status "skipped"
\* with the lead's skip_reason, and the table untouched; (c) none and the
\* lead qualified -> status "stored" and exactly one new row, with the
\* posting's key and duplicate_flag false. A request that has ended takes no
\* further step.
C2_IngestOutcomeByLookup ==
    [][\A r \in Reqs :
          /\ (IngestEnds(r) /\ post'[r].outcome # "failed") =>
                LET p == post'[r]
                    a == resp'[r]
                IN  /\ p.looked
                    /\ p.outcome = a.status
                    /\ a.status \in {"duplicate", "skipped", "stored"}
                    /\ p.found # {} =>
                          /\ a.status = "duplicate"
                          /\ a.lead_id \in {leads[i].id : i \in p.found}
                          /\ leads[a.lead_id].dedupe_key = p.key
                          /\ Len(leads') = Len(leads)
                          /\ p.inserted = {}
                    /\ (p.found = {} /\ ~p.qualified) =>
                          /\ a.status = "skipped"
                          /\ a.reason = rec'[r].skip_reason
                          /\ a.reason # <<>>
                          /\ leads' = leads
                          /\ p.inserted = {} /\ p.updates = 0
                    /\ (p.found = {} /\ p.qualified) =>
                          /\ a.status = "stored"
                          /\ OneRowMore
                          /\ leads'[Len(leads')].dedupe_key = p.key
                          /\ leads'[Len(leads')].duplicate_flag = FALSE
                          /\ a.lead_id = leads'[Len(leads')].id
                          /\ p.updates = 0
          /\ (kind[r] = "ingest" /\ pc[r] = "done" /\ arrivals' = arrivals) =>
                /\ pc'[r] = "done"
                /\ resp'[r] = resp[r]
                /\ post'[r] = post[r]
      ]_vars

\* an /ingest request has ended "stored" and another "duplicate" of its row
C2_StoredThenDuplicate ==
    \E r, q \in Reqs :
        /\ kind[r] = "ingest" /\ pc[r] = "done" /\ resp[r].status = "stored"
        /\ post[r].found = {} /\ post[r].qualified
        /\ kind[q] = "ingest" /\ pc[q] = "done"
        /\ resp[q].status = "duplicate"
        /\ resp[q].lead_id = resp[r].lead_id

\* C3: postings with the same dedupe_key, however their lookups, inserts
\* and updates interleave, never both insert a row: the table never holds
\* two rows with one dedupe_key.
C3_NeverBothInsert ==
    \A i, j \in 1..Len(leads) :
        leads[i].dedupe_key = leads[j].dedupe_key => i = j

\* a posting has gone past its lookup and its storage calls did not fail
Settled(p) == p.looked /\ p.outcome \notin {"none", "failed", "insert_failed"}

\* C4: the lookup comes before the qualification gate: an unqualified
\* posting whose key is already stored ends as a duplicate, never as
\* skipped; it is not stored, and the row the lookup returned has
\* duplicate_flag true.
C4_DuplicateBeforeGate ==
    \A r \in Reqs :
        (Settled(post[r]) /\ post[r].found # {} /\ ~post[r].qualified) =>
            /\ post[r].outcome = "duplicate"
            /\ post[r].inserted = {}
            /\ post[r].matched \in post[r].found
            /\ leads[post[r].matched].dedupe_key = post[r].key
            /\ leads[post[r].matched].duplicate_flag
            /\ (kind[r] = "ingest" /\ pc[r] = "done") =>
                  /\ resp[r].status = "duplicate"
                  /\ resp[r].lead_id = post[r].matched

\* an unqualified posting found a stored, unflagged row and flagged it
C4_UnqualifiedRepeatFlags ==
    \E r \in Reqs :
        /\ post[r].looked /\ ~post[r].qualified
        /\ post[r].found # {} /\ ~post[r].flagged
        /\ post[r].updates = 1
        /\ post[r].outcome = "duplicate"
        /\ leads[post[r].matched].duplicate_flag

\* C5: a stored row is never removed and none of its fields changes, except
\* duplicate_flag from false to true; and a posting that ends as a duplicate
\* changes nothing in the table but that flag on the row it matched.
C5_OnlyFlagFalseToTrue ==
    [][/\ Len(leads') >= Len(leads)
       /\ \A i \in 1..Len(leads) :
             \/ leads'[i] = leads[i]
             \/ /\ ~leads[i].duplicate_flag
                /\ leads'[i] = [leads[i] EXCEPT !.duplicate_flag = TRUE]
       /\ \A r \in Reqs :
             (post'[r] # post[r] /\ post'[r].outcome = "duplicate") =>
                /\ Len(leads') = Len(leads)
                /\ \A i \in 1..Len(leads) :
                      i # post'[r].matched => leads'[i] = leads[i]
      ]_vars

\* a row was flagged by a duplicate while another row stays unflagged
C5_FlaggedBesideUnflagged ==
    \E r \in Reqs : \E i \in 1..Len(leads) :
        /\ post[r].updates = 1
        /\ leads[post[r].matched].duplicate_flag
        /\ i # post[r].matched
        /\ ~leads[i].duplicate_flag

\* C6: a posting whose lookup returns a row with duplicate_flag already true
\* issues no update, leaves the row as it was, raises no error and ends as
\* a duplicate.
C6_FlaggedRowNotUpdated ==
    \A r \in Reqs :
        (post[r].looked /\ post[r].found # {} /\ post[r].flagged) =>
            /\ post[r].updates = 0
            /\ pc[r] # "update"
            /\ post[r].outcome = "duplicate"
            /\ post[r].inserted = {}
            /\ leads[post[r].matched] = post[r].seen_row
            /\ (kind[r] = "ingest") =>
                  /\ pc[r] = "done"
                  /\ resp[r].status = "duplicate"
                  /\ resp[r].lead_id = post[r].matched

\* a posting matched a row that was already flagged
C6_RepeatOnFlaggedRow ==
    \E r \in Reqs :
        /\ post[r].looked /\ post[r].flagged
        /\ post[r].seen_row.duplicate_flag
        /\ post[r].outcome = "duplicate"
        /\ post[r].updates = 0

\* the reply is no JSON, or no JSON object
Malformed(p) == parse_raw(p).status # "ok" \/ p.top.kind # "object"

\* C13: when the extractor's reply is no structured data at all, /ingest
\* answers with an error, which is none of "stored", "duplicate" and
\* "skipped"; no lead is made up in its place, and no lookup, update or
\* insert is run for the posting: the table stays as it is.
C13_MalformedReplyIsAnError ==
    [][\A r \in Reqs :
          (IngestEnds(r) /\ Malformed(post'[r].reply)) =>
              /\ resp'[r].status = "error"
              /\ resp'[r].status \notin {"stored", "duplicate", "skipped"}
              /\ pc[r] \in {"idle", "done"}
              /\ rec'[r] = rec[r]
              /\ ~post'[r].looked
              /\ post'[r].updates = 0 /\ post'[r].inserted = {}
              /\ leads' = leads
      ]_vars

\* a malformed reply was answered with an error while the table holds a row
C13_MalformedAfterStored ==
    \E r \in Reqs :
        /\ kind[r] = "ingest" /\ pc[r] = "done"
        /\ post[r].reply.form \in {"garbage", "embedded_bad"}
        /\ resp[r].status = "error"
        /\ Len(leads) = 1

\* a storage call of the posting failed: it raised, or the insert gave no row
StorageFailed(p) == p.key # <<>> /\ p.outcome \in {"failed", "insert_failed"}

\* C14: when the lookup, the update or the insert of a posting fails, the
\* caller gets a service error: the request ends there with an error, for
\* /ingest and for each job of a /scrape batch; the posting is not passed
\* over with the request going on to answer as if nothing had failed.
C14_StorageFailureReported ==
    \A r \in Reqs :
        StorageFailed(post[r]) => (pc[r] = "done" /\ resp[r].status = "error")

(***************************************************************************)
(* Claims about process_lead_with_openai (checked under SpecProcess)       *)
(***************************************************************************)
Processed1 == kind[1] = "process_lead" /\ pc[1] = "done"

\* the model is unavailable: no client, or the call or the handling of its
\* reply raises
Unavailable == ~oai \/ post[1].reply \in RaisingReplies

\* the company a title names: the last of the parts a separator cuts it in
CompanyFromTitle(title, c) ==
    IF \E k \in 1..Len(Separators) : Len(Parts(title, Separators[k])) >= 2
    THEN /\ c.kind = "str"
         /\ \E k \in 1..Len(Separators) :
               LET ps == Parts(title, Separators[k])
               IN  Len(ps) >= 2 /\ c.s = ps[Len(ps)]
    ELSE c = JNull

\* C15: with no client, or when the model call or the handling of its reply
\* raises, process_lead_with_openai returns the heuristic record made from
\* the title and the URL alone: company from the title's last separated
\* part, role the title or "N/A", qualified true, priority 4 if the title
\* contains "senior", "lead" or "manager" and 2 otherwise; and it is the
\* record returned for the same job when no client is configured.
C15_FallbackWhenUnavailable ==
    (Processed1 /\ Unavailable) =>
        LET job == jobs[1][1]
            title == Strip(job.source_subject)
        IN  /\ CompanyFromTitle(title, rec[1].company)
            /\ rec[1].roles_advertised = JStr(IF title = <<>> THEN NA ELSE title)
            /\ rec[1].qualified = PyTrue
            /\ rec[1].priority =
                  IF \/ Contains(Lower(title), senior)
                     \/ Contains(Lower(title), leadWord)
                     \/ Contains(Lower(title), manager)
                  THEN 4 ELSE 2
            /\ \A reply \in ProcessReplies :
                  rec[1] = process_lead_with_openai(FALSE, job.source_subject,
                                                    job.ad_url, reply)

\* C15 witness: a client is given, its call raises, and the record is the
\* heuristic one for a padded title
C15_ClientRaisesFallback ==
    /\ Processed1
    /\ oai
    /\ post[1].reply.kind = "raise"
    /\ jobs[1][1].source_subject = TitleLeader
    /\ rec[1].priority = 4
    /\ rec[1].company = JNull
    /\ rec[1].qualified = PyTrue

(***************************************************************************)
(* Claims about GET /metrics and GET /leads (checked under SpecRead)       *)
(***************************************************************************)
MetricsAnswered == kind[1] = "metrics" /\ pc[1] = "done"

RowsWhere(P(_)) == Cardinality({i \in 1..Len(leads) : P(leads[i])})

IsDuplicate(r) == r.duplicate_flag

IsHighPriority(r) == r.priority.kind = "int" /\ NumVal(r.priority.s) >= 4

\* C17: /metrics returns total_leads = the number of rows, duplicates_found
\* = the rows with duplicate_flag true, unique_leads = total_leads -
\* duplicates_found, high_priority_leads = the rows of priority 4 or more;
\* so unique_leads + duplicates_found = total_leads and every count lies
\* between 0 and total_leads.
C17_MetricsCountTheTable ==
    MetricsAnswered =>
        LET m == resp[1]
        IN  /\ m.total_leads = Len(leads)
            /\ m.duplicates_found = RowsWhere(IsDuplicate)
            /\ m.unique_leads = m.total_leads - m.duplicates_found
            /\ m.high_priority_leads = RowsWhere(IsHighPriority)
            /\ m.unique_leads + m.duplicates_found = m.total_leads
            /\ \A c \in {m.total_leads, m.duplicates_found, m.unique_leads,
                          m.high_priority_leads} : c \in 0..m.total_leads

\* C17 witness: a table with a duplicate of high priority and a row of no
\* priority
C17_MixedTable ==
    /\ MetricsAnswered
    /\ resp[1].total_leads = 3
    /\ resp[1].duplicates_found = 1
    /\ resp[1].unique_leads = 2
    /\ resp[1].high_priority_leads = 1
    /\ \E i \in 1..Len(leads) : leads[i].priority = JNull
    /\ \E i \in 1..Len(leads) :
          leads[i].duplicate_flag /\ IsHighPriority(leads[i])

LeadsAnswered == kind[1] = "leads" /\ pc[1] = "done"

\* sub is a substring of the column's value whatever the case; a row with
\* no value has no substring
SubstringOf(sub, value) ==
    value.kind = "str" /\ Contains(Lower(value.s), Lower(sub.s))

\* the row satisfies every filter the query supplies
SatisfiesQuery(r, q) ==
    /\ q.role # JNull => SubstringOf(q.role, r.roles_advertised)
    /\ q.town # JNull => SubstringOf(q.town, r.location)
    /\ q.state # JNull => SubstringOf(q.state, r.location)

\* C18: /leads returns at most the limit of rows (500, scaled to
\* LeadsLimit); every row returned satisfies all the filters supplied, role
\* a substring of roles_advertised, town and state substrings of location,
\* whatever the case; the rows come newest first; and when more rows
\* match than the limit, the newest of them are the ones returned.
C18_LeadsFilteredNewestCapped ==
    LeadsAnswered =>
        LET rows == resp[1].rows
            q == rec[1]
            matching == {i \in 1..Len(leads) : SatisfiesQuery(leads[i], q)}
        IN  /\ Len(rows) <= LeadsLimit
            /\ \A k \in 1..Len(rows) :
                  /\ \E i \in 1..Len(leads) : leads[i] = rows[k]
                  /\ SatisfiesQuery(rows[k], q)
            /\ \A k \in 1..(Len(rows) - 1) :
                  rows[k].created_at >= rows[k + 1].created_at
            /\ Len(rows) =
                  IF Cardinality(matching) < LeadsLimit
                  THEN Cardinality(matching) ELSE LeadsLimit
            /\ \A i \in matching :
                  \/ \E k \in 1..Len(rows) : rows[k] = leads[i]
                  \/ \A k \in 1..Len(rows) :
                        rows[k].created_at >= leads[i].created_at

(***************************************************************************)
(* Claims about what /scrape and /ingest store (checked under Spec)        *)
(***************************************************************************)
\* what the processed record says of the job: qualified unless it is false,
\* empty, or a text other than "true", "yes" and "1"
SaysQualified(v) ==
    \/ v = PyTrue
    \/ v.kind = "str" /\ Lower(v.s) \in TruthWords

\* C19: /scrape inserts a job only if the processed record marks it
\* qualified: a job whose record says false, or a textual "No" or "false",
\* is never inserted; and every row /ingest inserts says qualified too.
C19_OnlyQualifiedInserted ==
    \A r \in Reqs :
        post[r].outcome = "stored" =>
            IF kind[r] = "scrape"
            THEN SaysQualified(post[r].inserted_row.qualified)
            ELSE Lower(post[r].inserted_row.qualified) \in TruthWords

(***************************************************************************)
(* Claims about postings processed one at a time (checked under SpecSeq)   *)
(***************************************************************************)
\* C20: with the postings processed one at a time from an empty table, the
\* table never holds two rows with one dedupe_key; a row is inserted with
\* duplicate_flag false, and the flag becomes true only in the step of a
\* later posting with the row's key, whose lookup found the row stored.
C20_OneRowPerKeyFlagByRepeat ==
    [][/\ \A i, j \in 1..Len(leads') :
             leads'[i].dedupe_key = leads'[j].dedupe_key => i = j
       /\ \A i \in (Len(leads) + 1)..Len(leads') : ~leads'[i].duplicate_flag
       /\ \A i \in 1..Len(leads) :
             (leads'[i].duplicate_flag /\ ~leads[i].duplicate_flag) =>
                /\ post[1].looked
                /\ post[1].key = leads[i].dedupe_key
                /\ post[1].matched = leads[i].id
                /\ post[1].seen_row = leads[i]
                /\ post[1].inserted = {}
                /\ post'[1].outcome = "duplicate"
      ]_vars

\* two rows of different keys, the first flagged by a repeat, one worker
C20_RepeatFlaggedFirstRow ==
    /\ kind[2] = "none"
    /\ Len(leads) = 2
    /\ leads[1].duplicate_flag
    /\ ~leads[2].duplicate_flag
    /\ leads[1].dedupe_key # leads[2].dedupe_key

(***************************************************************************)
(* Claims about scrape_seek                                                *)
(***************************************************************************)
\* what the fetch of page p returns
PageCards(p) == fetch_seek_page[rec[1].site[p]]

\* the places where ad_url u stands in the pages fetched
Occurs(u) ==
    {pl \in (1..MaxPages) \X (1..MaxAnchors) :
        /\ pl[1] <= Len(rec[1].fetched)
        /\ pl[2] <= Len(PageCards(pl[1]))
        /\ PageCards(pl[1])[pl[2]].ad_url = u}

Before(pl, ql) == pl[1] < ql[1] \/ (pl[1] = ql[1] /\ pl[2] < ql[2])

FirstSeen(u) ==
    CHOOSE pl \in Occurs(u) : \A ql \in Occurs(u) \ {pl} : Before(pl, ql)

\* page p returns a job whose ad_url no earlier page returned
Contributes(p) ==
    \E i \in 1..Len(PageCards(p)) :
        /\ PageCards(p)[i].ad_url # <<>>
        /\ \A q \in 1..(p - 1) : \A k \in 1..Len(PageCards(q)) :
              PageCards(q)[k].ad_url # PageCards(p)[i].ad_url

PagesInOrder ==
    /\ \A i \in 1..Len(rec[1].fetched) : rec[1].fetched[i] = i
    /\ IF rec[1].pages <= 0 THEN rec[1].fetched = <<>>
       ELSE Len(rec[1].fetched) <= rec[1].pages
    /\ pc[1] = "raised" =>
          jx[1] = Len(rec[1].fetched) + 1 /\ jx[1] <= rec[1].pages

StopsAtFirstBarrenPage ==
    /\ \A i \in 1..(Len(rec[1].fetched) - 1) : Contributes(i)
    /\ pc[1] = "loop" => \A i \in 1..Len(rec[1].fetched) : Contributes(i)
    /\ pc[1] = "done" =>
          \/ Len(rec[1].fetched) = rec[1].pages
          \/ rec[1].pages <= 0
          \/ ~Contributes(Len(rec[1].fetched))

FirstSeenOrder ==
    /\ \A i \in 1..Len(jobs[1]) :
          /\ jobs[1][i].ad_url # <<>>
          /\ Occurs(jobs[1][i].ad_url) # {}
          /\ LET pl == FirstSeen(jobs[1][i].ad_url)
             IN  jobs[1][i] = PageCards(pl[1])[pl[2]]
    /\ \A i, j \in 1..Len(jobs[1]) :
          i < j => /\ jobs[1][i].ad_url # jobs[1][j].ad_url
                   /\ Before(FirstSeen(jobs[1][i].ad_url),
                             FirstSeen(jobs[1][j].ad_url))
    /\ \A p \in 1..Len(rec[1].fetched) : \A k \in 1..Len(PageCards(p)) :
          PageCards(p)[k].ad_url # <<>> =>
             \E i \in 1..Len(jobs[1]) :
                jobs[1][i].ad_url = PageCards(p)[k].ad_url
    /\ rec[1].pages <= 0 => jobs[1] = <<>>

\* C21: scrape_seek fetches pages 1, 2, ... in order and at most `pages` of
\* them, fetches nothing after the first page that returns no jobs or no
\* ad_url unseen so far, ends when every fetch returns, and its jobs are in
\* first-seen order with pairwise distinct, non-empty ad_url (none when
\* pages <= 0)
C21_ScrapeSeekBounded ==
    /\ [](kind[1] = "scrape_seek" =>
             PagesInOrder /\ StopsAtFirstBarrenPage /\ FirstSeenOrder)
    /\ <>(kind[1] = "scrape_seek" => pc[1] \in {"done", "raised"})

\* the loop ended on a page of known jobs only, before `pages` was reached
C21_Witness ==
    /\ kind[1] = "scrape_seek"
    /\ pc[1] = "done"
    /\ Len(rec[1].fetched) < rec[1].pages
    /\ PageCards(Len(rec[1].fetched)) # <<>>
    /\ Len(jobs[1]) >= 2

(***************************************************************************)
(* Claim about the two paths of process_lead_with_openai (SpecProcess)     *)
(***************************************************************************)
\* the record came from the model: a client is given and nothing raised
FromModel == oai /\ post[1].reply \notin RaisingReplies

\* C22: for the same title and ad_url, the record made from the model's
\* reply and the record of the deterministic fallback carry the same
\* dedupe_key, so a posting processed on one path is found again by its key
\* when it is processed on the other
C22_SameKeyOnBothPaths ==
    (Processed1 /\ FromModel) =>
        rec[1].dedupe_key =
            process_lead_with_openai(FALSE, jobs[1][1].source_subject,
                                     jobs[1][1].ad_url,
                                     post[1].reply).dedupe_key

====
